---- MODULE Spec2Model ----
(***************************************************************************)
(* Request pre-load and version-negotiation pipeline of the cloud API      *)
(* gateway: lib/packages.js, lib/datasets.js and the middleware order of   *)
(* lib/app.js, with readOnlyMode between the preloads and the routes, and  *)
(* the start of the server (createServer, createClients) in boot.          *)
(*                                                                         *)
(* Strings that the code inspects (versions, version ranges) are token     *)
(* sequences, so that a textual test and a semantic-version test are two   *)
(* different computations.  An optional value is a set: {} is a falsy      *)
(* value (undefined, false, null), {x} is the value x.  A missing request  *)
(* parameter is the empty string, which is falsy in the code as well.      *)
(***************************************************************************)
EXTENDS Naturals, Sequences, FiniteSets, TLC

VARIABLES rq, cacheStore, now, last, config, boot

vars == <<rq, cacheStore, now, last, config, boot>>

\* ------------------------------------------------------------------ bounds

\* Latest clock value; the clock only matters to the cache's expiry.
MaxTime == 3

\* At most this many narrowing filter parameters in one list request.
MaxFilters == 1

\* config.redis.max_packages_lifetime, in clock ticks (a deployment setting).
MaxPackagesLifetime == 2

\* ---------------------------------------------------- semantic versions

NoErr == "none"

NumOf ==
    ("0" :> 0) @@ ("1" :> 1) @@ ("2" :> 2) @@ ("5" :> 5) @@ ("6" :> 6)
    @@ ("7" :> 7) @@ ("10" :> 10)

\* Rank of a number token under string comparison ("10" sorts before "2").
StrRankOf ==
    ("0" :> 0) @@ ("1" :> 1) @@ ("10" :> 2) @@ ("2" :> 3) @@ ("5" :> 4)
    @@ ("6" :> 5) @@ ("7" :> 6)

\* A dotted list of number tokens: N, N.N, N.N.N
IsDotted(s) ==
    /\ Len(s) \in {1, 3, 5}
    /\ \A i \in 1..Len(s) :
        IF i % 2 = 1 THEN s[i] \in DOMAIN NumOf ELSE s[i] = "."

\* The numbers of a dotted list, in order.
Components(s) ==
    [i \in 1..((Len(s) + 1) \div 2) |-> NumOf[s[2 * i - 1]]]

\* semver.valid: the cleaned version ("v1.2.3" -> "1.2.3"), or null (<<>>).
semver_valid(s) ==
    LET t == IF Len(s) > 0 /\ s[1] \in {"v", "="} THEN Tail(s) ELSE s
    IN  IF IsDotted(t) /\ Len(t) = 5 THEN t ELSE <<>>

\* a >= b on number triples, most significant first.
TripleGte(a, b) ==
    \/ a[1] > b[1]
    \/ a[1] = b[1] /\ a[2] > b[2]
    \/ a[1] = b[1] /\ a[2] = b[2] /\ a[3] >= b[3]

\* A faulty variant of semver_gte: the versions compared as strings.
semver_gte_strcmp(a, b) ==
    TripleGte([i \in 1..3 |-> StrRankOf[a[2 * i - 1]]],
              [i \in 1..3 |-> StrRankOf[b[2 * i - 1]]])

\* semver.gte on two cleaned versions.
semver_gte(a, b) ==
    TripleGte(Components(a), Components(b))

\* semver.satisfies(version, range) for the ranges "*", "~M", "~M.m",
\* "~M.m.p", "M", "M.m" and "M.m.p".
semver_satisfies(version, range) ==
    LET v == Components(version)
        tilde == Len(range) > 0 /\ range[1] = "~"
        body == IF tilde THEN Tail(range) ELSE range
        c == Components(body)
    IN  IF range = <<"*">> THEN TRUE
        ELSE IF ~IsDotted(body) THEN FALSE
        ELSE /\ v[1] = c[1]
             /\ Len(c) >= 2 => v[2] = c[2]
             /\ Len(c) = 3 => IF tilde THEN v[3] >= c[3] ELSE v[3] = c[3]

\* /6\.5/.test(v): the text "6.5" occurs in the declared version.
Test65(v) ==
    \E i \in 1..Len(v) :
        /\ i + 2 <= Len(v)
        /\ v[i] = "6" /\ v[i + 1] = "." /\ v[i + 2] = "5"

V650 == <<"6", ".", "5", ".", "0">>
V700 == <<"7", ".", "0", ".", "0">>
V710 == <<"7", ".", "1", ".", "0">>
V720 == <<"7", ".", "2", ".", "0">>

\* What a client may declare in Accept-Version / X-Api-Version ("*" when
\* the header is missing).
DeclaredVersions ==
    { <<"*">>, <<"~", "6", ".", "5">>, <<"~", "6">>,
      <<"~", "7", ".", "0">>, <<"~", "7", ".", "1">> }

\* ------------------------------------------------------------- accounts

\* req.account of the tenants.  The login of t3 is a word that every
\* JavaScript object answers to (see InheritedKeys); t3 owns no package and
\* no image.
Accounts ==
    { [uuid |-> "t1", login |-> "alice"], [uuid |-> "t2", login |-> "bob"],
      [uuid |-> "t3", login |-> "constructor"] }

\* ------------------------------------------------- package catalog (PAPI)

\* The backend's packages.  A field a package does not carry is not in the
\* record's domain (vcpus, description and group are optional).
Packages ==
    { [uuid |-> "u-p1", name |-> "small", version |-> <<"1", ".", "2", ".", "0">>,
       owner_uuids |-> {"t1"}, active |-> TRUE, default |-> TRUE,
       max_physical_memory |-> "1024", quota |-> "10240", max_swap |-> "2048",
       vcpus |-> "1", description |-> "a small one", group |-> "std"],
      [uuid |-> "u-p2", name |-> "small", version |-> <<"1", ".", "10", ".", "0">>,
       owner_uuids |-> {"t1"}, active |-> TRUE, default |-> TRUE,
       max_physical_memory |-> "2048", quota |-> "10240", max_swap |-> "4096"],
      [uuid |-> "u-p3", name |-> "small", version |-> <<"2", ".", "0", ".", "0">>,
       owner_uuids |-> {"t1"}, active |-> FALSE, default |-> TRUE,
       max_physical_memory |-> "4096", quota |-> "10240", max_swap |-> "8192",
       vcpus |-> "2"],
      [uuid |-> "u-p4", name |-> "big", version |-> <<"1", ".", "0", ".", "0">>,
       owner_uuids |-> {"t2"}, active |-> TRUE, default |-> FALSE,
       max_physical_memory |-> "8192", quota |-> "20480", max_swap |-> "16384",
       vcpus |-> "4", group |-> "std"] }

\* Every ordering of a finite set, as sequences: a backend list call answers
\* with the matching records in an order the gateway does not control.
Orderings(S) ==
    { f \in [1..Cardinality(S) -> S] : \A i, j \in DOMAIN f : f[i] = f[j] => i = j }

\* The PAPI filter: every key of opts restricts the result.
PapiMatches(p, opts) ==
    \A k \in DOMAIN opts :
        CASE k = "owner_uuids" -> opts[k] \in p.owner_uuids
          [] k = "active" -> p.active = opts[k]
          [] OTHER -> k \in DOMAIN p /\ p[k] = opts[k]

\* req.sdc.papi.list(opts, {}, cb): cb(err) or cb(null, pkgs).
PapiListOutcomes(opts) ==
    { [err |-> "PapiError", pkgs |-> <<>>] }
    \cup { [err |-> NoErr, pkgs |-> l] :
            l \in Orderings({ p \in Packages : PapiMatches(p, opts) }) }

\* req.sdc.papi.get(uuid, opts, cb): the package with that uuid when opts
\* admits it, a 404 error from the backend otherwise.
PapiGetOutcomes(uuid, opts) ==
    LET found == { p \in Packages : p.uuid = uuid /\ PapiMatches(p, opts) }
    IN  { [err |-> "PapiError", pkg |-> {}] }
        \cup (IF found # {}
              THEN { [err |-> NoErr, pkg |-> {p}] : p \in found }
              ELSE { [err |-> "PapiResourceNotFound", pkg |-> {}] })

\* A record field that is only there under a condition.
Opt(cond, key, val) ==
    IF cond THEN key :> val ELSE <<>>

\* packages.js translate(req, pkg); version is req.getVersion().
packages_translate(version, pkg) ==
    [name |-> pkg.name, memory |-> pkg.max_physical_memory, disk |-> pkg.quota,
     swap |-> pkg.max_swap,
     vcpus |-> IF "vcpus" \in DOMAIN pkg THEN pkg.vcpus ELSE "0",
     default |-> pkg.default]
    @@ (IF ~Test65(version)
        THEN [id |-> pkg.uuid, version |-> pkg.version]
             @@ Opt("description" \in DOMAIN pkg, "description", pkg.description)
             @@ Opt("group" \in DOMAIN pkg, "group", pkg.group)
        ELSE <<>>)

\* pkgs.map(function (p) { return translate(req, p); })
MapTranslate(version, pkgs) ==
    [i \in DOMAIN pkgs |-> packages_translate(version, pkgs[i])]

\* --------------------------------------------------------- request state

Slots == {"r1"}

\* A request before it arrives.  pkg, packages, dataset, datasets are
\* req.pkg, req.packages, req.dataset, req.datasets; sent is what res.send
\* was called with; nextErr is the error handed to next and nexts counts the
\* calls of next by the preloads and the handlers of the route; calls, answers and cacheOps record the backend calls, the
\* err each of them answered with and the cache store operations.
IdleReq ==
    [pc |-> "idle", account |-> "", login |-> "", version |-> <<>>,
     method |-> "", url |-> <<>>, route |-> "", params |-> <<>>,
     pkg |-> {}, packages |-> {}, dataset |-> {}, datasets |-> {},
     sent |-> <<>>, nextErr |-> NoErr, nexts |-> 0,
     calls |-> <<>>, answers |-> <<>>, cacheOps |-> <<>>,
     opts |-> <<>>, canUseCache |-> FALSE]

\* ------------------------------------------------------ cache (lib/cache)

\* A faulty variant of getCacheKey: one key for every tenant.
getCacheKey_shared(account) ==
    <<"packages_", "t1">>

\* packages.js getCacheKey(req): 'packages_' + req.account.uuid
getCacheKey(account) ==
    <<"packages_", account>>

CacheKeys == { getCacheKey(a.uuid) : a \in Accounts }

\* The entry under key that has not expired, as an optional value.
LiveEntry(key) ==
    { e \in cacheStore[key] : now < e.expires }

\* cache.get(req, key, canUseCache, cb): without canUseCache the store is not
\* asked and the answer is a miss; a store error is reported to cb; a
\* missing or expired entry is a miss.
CacheGetOutcomes(key, canUse) ==
    IF ~canUse
    THEN { [err |-> NoErr, val |-> {}, asked |-> FALSE] }
    ELSE { [err |-> "CacheError", val |-> {}, asked |-> TRUE],
           [err |-> NoErr, val |-> { e.value : e \in LiveEntry(key) },
            asked |-> TRUE] }

\* cache.set(req, key, lifetime, value): the store takes the entry, or the
\* write fails and nothing is reported.
CacheSetOutcomes == { "stored", "failed" }

\* --------------------------------------------------- packages.js list

ListFilterParams ==
    {"name", "memory", "disk", "swap", "version", "vcpus", "group"}

\* The value a filter parameter carries when the client sends it.
FilterValue ==
    [name |-> "small", memory |-> "1024", disk |-> "10240", swap |-> "2048",
     version |-> <<"1", ".", "2", ".", "0">>, vcpus |-> "1", group |-> "std"]

\* The query parameters of a list request: at most MaxFilters of them.
FilterChoices ==
    { [k \in D |-> FilterValue[k]] :
        D \in { E \in SUBSET ListFilterParams : Cardinality(E) <= MaxFilters } }

\* A parameter that list does not recognize, sent or not.
UnrecognizedChoices == { <<>>, [limit |-> "10"], [package |-> "small"] }

\* The query parameters of a list request of the package list specification.
ListParamChoices ==
    { f @@ x : f \in FilterChoices, x \in UnrecognizedChoices }

\* A faulty variant of ListFilterOpts: every parameter of the request is
\* copied into opts.
ListFilterOpts_copyAll(params) ==
    [k \in DOMAIN params |-> params[k]]

\* A faulty variant of ListFilterOpts: the group parameter is not looked at.
ListFilterOpts_noGroup(params) ==
    Opt("name" \in DOMAIN params, "name", params.name)
    @@ Opt("memory" \in DOMAIN params, "max_physical_memory", params.memory)
    @@ Opt("disk" \in DOMAIN params, "quota", params.disk)
    @@ Opt("swap" \in DOMAIN params, "max_swap", params.swap)
    @@ Opt("version" \in DOMAIN params, "version", params.version)
    @@ Opt("vcpus" \in DOMAIN params, "vcpus", params.vcpus)

\* list: opts as built from the recognized parameters that are set.
ListFilterOpts(params) ==
    Opt("name" \in DOMAIN params, "name", params.name)
    @@ Opt("memory" \in DOMAIN params, "max_physical_memory", params.memory)
    @@ Opt("disk" \in DOMAIN params, "quota", params.disk)
    @@ Opt("swap" \in DOMAIN params, "max_swap", params.swap)
    @@ Opt("version" \in DOMAIN params, "version", params.version)
    @@ Opt("vcpus" \in DOMAIN params, "vcpus", params.vcpus)
    @@ Opt("group" \in DOMAIN params, "group", params.group)

\* A faulty variant of CanUseCache: the cache is used whatever the filters.
CanUseCache_always(opts) ==
    TRUE

\* var canUseCache = (Object.keys(opts).length === 0);
CanUseCache(opts) ==
    DOMAIN opts = {}

\* The versions list requests declare in this specification.
ListVersions ==
    { <<"~", "6", ".", "5">>, <<"~", "7", ".", "0">> }

\* A list request of one of the accounts accts arrives with one of the
\* declared versions and one of the parameter choices, and is routed; the
\* chain starts at datasets.load.
NewListRequestFrom(s, accts, versions, filters) ==
    /\ rq[s].pc = "idle"
    /\ \E a \in accts, v \in versions, ps \in filters :
        rq' = [rq EXCEPT ![s] =
                [IdleReq EXCEPT !.pc = "datasets.load", !.account = a.uuid,
                                !.login = a.login, !.version = v,
                                !.method = "GET", !.url = <<"my", "packages">>,
                                !.route = "ListPackages", !.params = ps]]
    /\ UNCHANGED <<cacheStore, now, last, config, boot>>

\* The tenants that send list requests: those with packages of their own.
ListAccounts ==
    { a \in Accounts : \E p \in Packages : a.uuid \in p.owner_uuids }

\* A list request arrives.
NewListRequest(s) ==
    NewListRequestFrom(s, ListAccounts, ListVersions, ListParamChoices)

\* app.js readOnlyMode: req.config.read_only is defined and true.
ReadOnly ==
    "read_only" \in DOMAIN config /\ config.read_only = TRUE

\* A faulty variant of readOnlyMode: only POST is turned away.
readOnlyMode_postOnly(s) ==
    /\ rq[s].pc = "handler"
    /\ rq' = [rq EXCEPT ![s] =
            IF rq[s].method = "POST" /\ ReadOnly
            THEN [rq[s] EXCEPT !.pc = "done", !.nextErr = "ServiceUnavailableError"]
            ELSE [rq[s] EXCEPT !.pc = "route"]]
    /\ UNCHANGED <<cacheStore, now, last, config, boot>>

\* app.js server.use(function readOnlyMode(req, res, next)): it runs after
\* the preloads and before the handlers of the route.  Like the other
\* middleware between them it is not counted in nexts.
readOnlyMode(s) ==
    /\ rq[s].pc = "handler"
    /\ rq' = [rq EXCEPT ![s] =
            IF rq[s].method \in {"PUT", "POST", "DELETE"} /\ ReadOnly
            THEN [rq[s] EXCEPT !.pc = "done", !.nextErr = "ServiceUnavailableError"]
            ELSE [rq[s] EXCEPT !.pc = "route"]]
    /\ UNCHANGED <<cacheStore, now, last, config, boot>>

\* list(req, res, next) up to its call of cache.get.
packages_list(s) ==
    /\ rq[s].pc = "route"
    /\ rq[s].route = "ListPackages"
    /\ LET opts == ListFilterOpts(rq[s].params)
       IN  rq' = [rq EXCEPT ![s].pc = "cache.get",
                            ![s].canUseCache = CanUseCache(opts),
                            ![s].opts = opts @@ [active |-> TRUE,
                                                 owner_uuids |-> rq[s].account]]
    /\ UNCHANGED <<cacheStore, now, last, config, boot>>

\* A faulty variant of sendResult: the cache is written before err is looked at.
sendResult_saveFirst(s, r, err, pkgs, saveToCache) ==
    \E w \in (IF saveToCache THEN CacheSetOutcomes ELSE {"none"}) :
        /\ cacheStore' =
            IF w = "stored"
            THEN [cacheStore EXCEPT ![getCacheKey(r.account)] =
                    {[value |-> pkgs, expires |-> now + MaxPackagesLifetime]}]
            ELSE cacheStore
        /\ rq' = [rq EXCEPT ![s] =
                    [r EXCEPT !.pc = "done",
                              !.nextErr = err,
                              !.sent = IF err # NoErr THEN @
                                       ELSE Append(@, MapTranslate(r.version, pkgs)),
                              !.nexts = @ + 1,
                              !.cacheOps =
                                  IF saveToCache
                                  THEN Append(@, [op |-> "set",
                                                  key |-> getCacheKey(r.account),
                                                  result |-> w, at |-> now,
                                                  expires |-> now + MaxPackagesLifetime])
                                  ELSE @]]

\* A faulty variant of sendResult: whatever is sent by a request that may use
\* the cache is saved, a list that came from the cache as well.
sendResult_resave(s, r, err, pkgs, saveToCache) ==
    IF err # NoErr
    THEN /\ rq' = [rq EXCEPT ![s] =
                    [r EXCEPT !.pc = "done", !.nextErr = err, !.nexts = @ + 1]]
         /\ UNCHANGED cacheStore
    ELSE \E w \in (IF r.canUseCache THEN CacheSetOutcomes ELSE {"none"}) :
            /\ cacheStore' =
                IF w = "stored"
                THEN [cacheStore EXCEPT ![getCacheKey(r.account)] =
                        {[value |-> pkgs, expires |-> now + MaxPackagesLifetime]}]
                ELSE cacheStore
            /\ rq' = [rq EXCEPT ![s] =
                        [r EXCEPT !.pc = "done",
                                  !.sent = Append(@, MapTranslate(r.version, pkgs)),
                                  !.nexts = @ + 1,
                                  !.cacheOps =
                                      IF r.canUseCache
                                      THEN Append(@, [op |-> "set",
                                                      key |-> getCacheKey(r.account),
                                                      result |-> w, at |-> now,
                                                      expires |-> now + MaxPackagesLifetime])
                                      ELSE @]]

\* A faulty variant of sendResult: the list is sent in the reverse of the
\* order it was handed over in.
sendResult_reversed(s, r, err, pkgs, saveToCache) ==
    IF err # NoErr
    THEN /\ rq' = [rq EXCEPT ![s] =
                    [r EXCEPT !.pc = "done", !.nextErr = err, !.nexts = @ + 1]]
         /\ UNCHANGED cacheStore
    ELSE \E w \in (IF saveToCache THEN CacheSetOutcomes ELSE {"none"}) :
            /\ cacheStore' =
                IF w = "stored"
                THEN [cacheStore EXCEPT ![getCacheKey(r.account)] =
                        {[value |-> pkgs, expires |-> now + MaxPackagesLifetime]}]
                ELSE cacheStore
            /\ rq' = [rq EXCEPT ![s] =
                        [r EXCEPT !.pc = "done",
                                  !.sent = Append(@, MapTranslate(r.version,
                                      [i \in DOMAIN pkgs |-> pkgs[Len(pkgs) + 1 - i]])),
                                  !.nexts = @ + 1,
                                  !.cacheOps =
                                      IF saveToCache
                                      THEN Append(@, [op |-> "set",
                                                      key |-> getCacheKey(r.account),
                                                      result |-> w, at |-> now,
                                                      expires |-> now + MaxPackagesLifetime])
                                      ELSE @]]

\* list's sendResult(err, pkgs, saveToCache); r is the request as it stands
\* when sendResult is called.
sendResult(s, r, err, pkgs, saveToCache) ==
    IF err # NoErr
    THEN /\ rq' = [rq EXCEPT ![s] =
                    [r EXCEPT !.pc = "done", !.nextErr = err, !.nexts = @ + 1]]
         /\ UNCHANGED cacheStore
    ELSE \E w \in (IF saveToCache THEN CacheSetOutcomes ELSE {"none"}) :
            /\ cacheStore' =
                IF w = "stored"
                THEN [cacheStore EXCEPT ![getCacheKey(r.account)] =
                        {[value |-> pkgs, expires |-> now + MaxPackagesLifetime]}]
                ELSE cacheStore
            /\ rq' = [rq EXCEPT ![s] =
                        [r EXCEPT !.pc = "done",
                                  !.sent = Append(@, MapTranslate(r.version, pkgs)),
                                  !.nexts = @ + 1,
                                  !.cacheOps =
                                      IF saveToCache
                                      THEN Append(@, [op |-> "set",
                                                      key |-> getCacheKey(r.account),
                                                      result |-> w, at |-> now,
                                                      expires |-> now + MaxPackagesLifetime])
                                      ELSE @]]

\* The request with a cache read added to its record, when the store was asked.
WithCacheGet(r, o) ==
    IF o.asked
    THEN [r EXCEPT !.cacheOps =
            Append(@, [op |-> "get", key |-> getCacheKey(r.account),
                       result |-> IF o.err # NoErr THEN "failed"
                                  ELSE IF o.val # {} THEN "hit" ELSE "miss",
                       at |-> now,
                       expires |-> IF o.err = NoErr /\ o.val # {}
                                   THEN (CHOOSE e \in LiveEntry(getCacheKey(r.account)) : TRUE).expires
                                   ELSE 0])]
    ELSE r

\* The request with a backend call added to its record.
WithCall(r, call) ==
    [r EXCEPT !.calls = Append(@, call)]

\* A faulty variant of list_cacheCb: a cached list is not used.
list_cacheCb_alwaysMiss(s) ==
    /\ rq[s].pc = "cache.get"
    /\ \E o \in CacheGetOutcomes(getCacheKey(rq[s].account), rq[s].canUseCache) :
        LET r == WithCacheGet(rq[s], o)
        IN  /\ rq' = [rq EXCEPT ![s] =
                        [WithCall(r, [api |-> "papi.list", opts |-> r.opts])
                            EXCEPT !.pc = "papi.list"]]
            /\ UNCHANGED cacheStore
    /\ UNCHANGED <<now, last, config, boot>>

\* A faulty variant of list_cacheCb: a cache error is handed to next.
list_cacheCb_failOnErr(s) ==
    /\ rq[s].pc = "cache.get"
    /\ \E o \in CacheGetOutcomes(getCacheKey(rq[s].account), rq[s].canUseCache) :
        LET r == WithCacheGet(rq[s], o)
        IN  IF o.err # NoErr
            THEN sendResult(s, r, o.err, <<>>, FALSE)
            ELSE IF o.val # {}
            THEN sendResult(s, r, NoErr, CHOOSE l \in o.val : TRUE, FALSE)
            ELSE /\ rq' = [rq EXCEPT ![s] =
                            [WithCall(r, [api |-> "papi.list", opts |-> r.opts])
                                EXCEPT !.pc = "papi.list"]]
                 /\ UNCHANGED cacheStore
    /\ UNCHANGED <<now, last, config, boot>>

\* A faulty variant of list_cacheCb: a hit is answered in the 6.5 format
\* whatever version the request declares, as if the stored list were kept in
\* the format of a 6.5 writer.
list_cacheCb_writerFormat(s) ==
    /\ rq[s].pc = "cache.get"
    /\ \E o \in CacheGetOutcomes(getCacheKey(rq[s].account), rq[s].canUseCache) :
        LET r == WithCacheGet(rq[s], o)
        IN  IF o.err = NoErr /\ o.val # {}
            THEN /\ rq' = [rq EXCEPT ![s] =
                            [r EXCEPT !.pc = "done",
                                      !.sent = Append(@, MapTranslate(V650,
                                                    CHOOSE l \in o.val : TRUE)),
                                      !.nexts = @ + 1]]
                 /\ UNCHANGED cacheStore
            ELSE /\ rq' = [rq EXCEPT ![s] =
                            [WithCall(r, [api |-> "papi.list", opts |-> r.opts])
                                EXCEPT !.pc = "papi.list"]]
                 /\ UNCHANGED cacheStore
    /\ UNCHANGED <<now, last, config, boot>>

\* The callback list gives to cache.get: an error is a miss; a hit is sent
\* without saving; a miss asks the backend.
list_cacheCb(s) ==
    /\ rq[s].pc = "cache.get"
    /\ \E o \in CacheGetOutcomes(getCacheKey(rq[s].account), rq[s].canUseCache) :
        LET r == WithCacheGet(rq[s], o)
        IN  IF o.err = NoErr /\ o.val # {}
            THEN sendResult(s, r, NoErr, CHOOSE l \in o.val : TRUE, FALSE)
            ELSE /\ rq' = [rq EXCEPT ![s] =
                            [WithCall(r, [api |-> "papi.list", opts |-> r.opts])
                                EXCEPT !.pc = "papi.list"]]
                 /\ UNCHANGED cacheStore
    /\ UNCHANGED <<now, last, config, boot>>

\* The callback list gives to papi.list: sendResult(err2, pkgs, canUseCache).
list_papiCb(s) ==
    /\ rq[s].pc = "papi.list"
    /\ \E o \in PapiListOutcomes(rq[s].opts) :
        sendResult(s, [rq[s] EXCEPT !.answers = Append(@, o.err)],
                   o.err, o.pkgs, rq[s].canUseCache)
    /\ UNCHANGED <<now, last, config, boot>>

\* What the next request can be compared with: the request that has just
\* ended, when it was an unfiltered list request that sent a response.
Summary(r) ==
    IF /\ r.url = <<"my", "packages">>
       /\ DOMAIN r.params \cap ListFilterParams = {}
       /\ r.nextErr = NoErr /\ Len(r.sent) = 1 /\ r.cacheOps # <<>>
    THEN LET op == r.cacheOps[Len(r.cacheOps)]
         IN  {[account |-> r.account, version |-> r.version, body |-> r.sent[1],
               cacheOk |-> op.result \in {"hit", "stored"},
               expires |-> op.expires]}
    ELSE {}

\* The request is over; its slot is free again.
Finish(s) ==
    /\ rq[s].pc = "done"
    /\ last' = Summary(rq[s])
    /\ rq' = [rq EXCEPT ![s] = IdleReq]
    /\ UNCHANGED <<cacheStore, now, config, boot>>

\* Time passes.
Tick ==
    /\ now < MaxTime
    /\ now' = now + 1
    /\ UNCHANGED <<rq, cacheStore, last, config, boot>>

\* config.bleeding_edge_features.img_mgmt and
\* config.bleeding_edge_login_whitelist.
Configs ==
    { [img_mgmt |-> FALSE, whitelist |-> {}],
      [img_mgmt |-> TRUE, whitelist |-> {"alice"}],
      [img_mgmt |-> TRUE, whitelist |-> {"*"}] }

\* ------------------------------------------------- package list: claims

IsListReq(r) == r.url = <<"my", "packages">>

Filtered(r) == DOMAIN r.params \cap ListFilterParams # {}

\* The cache store operations of a request, as a set.
OpsOf(r) == { r.cacheOps[i] : i \in DOMAIN r.cacheOps }

\* The request answered as list answers from a fresh backend result.
AnsweredFromBackend(r) ==
    /\ r.calls = <<[api |-> "papi.list", opts |-> r.opts]>>
    /\ IF r.answers = <<NoErr>>
       THEN /\ r.nextErr = NoErr
            /\ \E o \in PapiListOutcomes(r.opts) :
                o.err = NoErr /\ r.sent = <<MapTranslate(r.version, o.pkgs)>>
       ELSE r.nextErr = r.answers[1] /\ r.sent = <<>>

\* The second of two consecutive unfiltered list requests of one tenant with
\* one declared version, the first having sent a response, read the cache
\* before the entry of the first expired.
SecondWithinTTL(r, f) ==
    /\ r.pc = "done" /\ IsListReq(r) /\ ~Filtered(r)
    /\ f.account = r.account /\ f.version = r.version
    /\ r.cacheOps # <<>> /\ r.cacheOps[1].at < f.expires

\* C2 as stated: the second of two consecutive unfiltered list requests
\* within the TTL issues no backend call and its body equals the first's.
C2_SecondIsServedFromCache ==
    \A s \in Slots : \A f \in last :
        SecondWithinTTL(rq[s], f)
            => rq[s].calls = <<>> /\ rq[s].sent = <<f.body>>

\* C2, amended: the same, when no cache-layer error occurred on the first
\* request's cache write (or hit) and on the second request's cache read.
C2_SecondIsServedFromWorkingCache ==
    \A s \in Slots : \A f \in last :
        (SecondWithinTTL(rq[s], f) /\ f.cacheOk
            /\ rq[s].cacheOps[1].result # "failed")
            => rq[s].calls = <<>> /\ rq[s].sent = <<f.body>>

C2_Witness ==
    \E s \in Slots : \E f \in last :
        /\ SecondWithinTTL(rq[s], f) /\ f.cacheOk
        /\ rq[s].cacheOps[1].result = "hit"
        /\ Len(f.body) = 2 /\ rq[s].sent = <<f.body>>

\* C3: a list request with a filter parameter never asks the cache store
\* (no get, no set on the tenant's key) and always queries the backend.
C3_FilteredRequestBypassesCache ==
    \A s \in Slots :
        (IsListReq(rq[s]) /\ Filtered(rq[s])) =>
            /\ rq[s].cacheOps = <<>>
            /\ ~rq[s].canUseCache
            /\ rq[s].pc = "done" => Len(rq[s].calls) = 1

C3_Witness ==
    \E s \in Slots :
        /\ IsListReq(rq[s]) /\ "group" \in DOMAIN rq[s].params
        /\ rq[s].pc = "done" /\ Len(rq[s].sent) = 1
        /\ cacheStore[getCacheKey(rq[s].account)] # {}

\* C7: a cache error never fails a list request: a failed read is a miss
\* (the backend is asked and its result sent), a failed write changes nothing
\* of the response, and next never gets a cache error.
C7_CacheErrorNeverFailsRequest ==
    \A s \in Slots :
        /\ rq[s].nextErr # "CacheError"
        /\ (rq[s].pc = "done" /\ IsListReq(rq[s])
            /\ \E op \in OpsOf(rq[s]) : op.result = "failed")
                => AnsweredFromBackend(rq[s])

C7_Witness ==
    \E s \in Slots :
        /\ rq[s].pc = "done" /\ Len(rq[s].sent) = 1
        /\ Len(rq[s].cacheOps) = 2
        /\ \A op \in OpsOf(rq[s]) : op.result = "failed"

\* C8: when the backend list call fails, next gets that error (the one call
\* of next after those of the two preloads), nothing is sent and the cache is
\* not written.
C8_BackendErrorAbortsList ==
    \A s \in Slots :
        (rq[s].pc = "done" /\ IsListReq(rq[s]) /\ rq[s].answers # <<>>
            /\ rq[s].answers[1] # NoErr) =>
            /\ rq[s].nextErr = rq[s].answers[1]
            /\ rq[s].nexts = 3
            /\ rq[s].sent = <<>>
            /\ \A op \in OpsOf(rq[s]) : op.op # "set"

C8_Witness ==
    \E s \in Slots :
        /\ rq[s].pc = "done" /\ rq[s].answers = <<"PapiError">>
        /\ rq[s].canUseCache /\ rq[s].nextErr = "PapiError"

\* ------------------------------------------------- image catalog (IMGAPI)

\* The identifiers of this model that have the shape UUID_RE asks for.
UUIDShaped ==
    {"u-p1", "u-p2", "u-p3", "u-p4", "u-i1", "u-i2", "u-i3", "u-i4", "u-i5",
     "u-i6", "u-none"}

\* UUID_RE.test(x)
UUID_RE(x) == x \in UUIDShaped

\* The backend's images.  urn, published_at, homepage, description,
\* requirements and error are optional; the error of u-i3 has a code that
\* errorObjFromImgapiImage knows, that of u-i4 one it does not know, that of
\* u-i5 no code.  u-i3 and u-i5 are private images of t1, u-i4 is
\* a private image of t2, u-i5 is disabled and u-i6 is destroyed.  A urn is
\* a legacy name that the backend does not keep unique: u-i4 carries the urn
\* of u-i1.
Images ==
    { [uuid |-> "u-i1", name |-> "smartos", version |-> <<"1", ".", "2", ".", "0">>,
       os |-> "smartos", type |-> "zone-dataset", state |-> "active",
       owner |-> "admin", public |-> TRUE, urn |-> "sdc:sdc:smartos:1.2.0",
       published_at |-> "2013-01-01", homepage |-> "http://smartos.org"],
      [uuid |-> "u-i2", name |-> "smartos", version |-> <<"1", ".", "10", ".", "0">>,
       os |-> "smartos", type |-> "zone-dataset", state |-> "active",
       owner |-> "admin", public |-> TRUE, urn |-> "sdc:sdc:smartos:1.10.0",
       description |-> "SmartOS",
       requirements |-> [password |-> TRUE, max_ram |-> "4096"]],
      [uuid |-> "u-i3", name |-> "mine", version |-> <<"1", ".", "0", ".", "0">>,
       os |-> "linux", type |-> "zvol", state |-> "active",
       owner |-> "t1", public |-> FALSE, published_at |-> "2014-01-01",
       error |-> [code |-> "VmHasNoOrigin", message |-> "vm has no origin"]],
      [uuid |-> "u-i4", name |-> "secret", version |-> <<"1", ".", "0", ".", "0">>,
       os |-> "linux", type |-> "zvol", state |-> "active",
       owner |-> "t2", public |-> FALSE, urn |-> "sdc:sdc:smartos:1.2.0",
       error |-> [code |-> "EIO", message |-> "zfs send failed on cn42"]],
      [uuid |-> "u-i5", name |-> "old", version |-> <<"0", ".", "1", ".", "0">>,
       os |-> "smartos", type |-> "zone-dataset", state |-> "disabled",
       owner |-> "t1", public |-> FALSE, urn |-> "sdc:t1:old:0.1.0",
       error |-> [message |-> "no code given"]],
      [uuid |-> "u-i6", name |-> "gone", version |-> <<"0", ".", "2", ".", "0">>,
       os |-> "smartos", type |-> "zone-dataset", state |-> "destroyed",
       owner |-> "t1", public |-> FALSE] }

\* The IMGAPI filter of listImages: with an account only what the account may
\* see, without a state only active images, never a destroyed one.
ImgMatches(img, opts) ==
    /\ img.state # "destroyed"
    /\ "account" \in DOMAIN opts => (img.public \/ img.owner = opts.account)
    /\ IF "state" \in DOMAIN opts
       THEN opts.state = "all" \/ img.state = opts.state
       ELSE img.state = "active"
    /\ \A k \in DOMAIN opts \ {"account", "state"} :
        k \in DOMAIN img /\ img[k] = opts[k]

\* req.sdc.imgapi.listImages(opts, ..., cb): cb(err) or cb(null, imgs).
ImgapiListOutcomes(opts) ==
    { [err |-> "ImgapiError", imgs |-> <<>>] }
    \cup { [err |-> NoErr, imgs |-> l] :
            l \in Orderings({ i \in Images : ImgMatches(i, opts) }) }

\* req.sdc.imgapi.getImage(uuid, {headers}, cb) without an account: the
\* image with that uuid whoever owns it and whatever its state, or the
\* backend's 404 error.
ImgapiGetOutcomes(uuid) ==
    { [err |-> "ImgapiError", img |-> {}] }
    \cup (IF \E i \in Images : i.uuid = uuid
          THEN { [err |-> NoErr, img |-> {i}] : i \in { j \in Images : j.uuid = uuid } }
          ELSE { [err |-> "ImgapiResourceNotFound", img |-> {}] })

\* ------------------------------------------------------------ req.url

\* req.url === '/--ping'
IsPing(url) == url = <<"--ping">>

\* A path segment named w occurs: /\/w/.test(req.url)
HasSeg(url, w) == \E i \in 1..Len(url) : url[i] = w

\* A path segment named w is followed by another: /\/w\//.test(req.url)
HasSegSlash(url, w) == \E i \in 1..Len(url) : i < Len(url) /\ url[i] = w

\* The path ends in the segment w: /\/w$/.test(url.pathname)
EndsWith(url, w) == Len(url) > 0 /\ url[Len(url)] = w

\* /^\/[^\/]+\/datasets/.test(req.url)
IsDeprecatedEndpoint(url) == Len(url) >= 2 /\ url[2] = "datasets"

\* a || b on two request parameters of params
ParamOr(params, a, b) ==
    IF a \in DOMAIN params THEN {params[a]}
    ELSE IF b \in DOMAIN params THEN {params[b]} ELSE {}

\* ------------------------------------------------- datasets.js helpers

\* Property names that a lookup obj[name] on a plain object finds on
\* Object.prototype, with a function as value, whatever the object's own keys.
InheritedKeys == {"constructor", "toString", "valueOf", "hasOwnProperty"}

\* config.bleeding_edge_login_whitelist[login], as a condition: the
\* whitelist is a plain object that maps a login to true, config.whitelist
\* holds its own keys.
WhitelistLookup(login) ==
    login \in config.whitelist \cup InheritedKeys

\* A faulty variant of errorObjFromImgapiImage: the backend's error object is
\* exposed as it is.
errorObjFromImgapiImage_passthrough(image) == image.error

\* errorObjFromImgapiImage(image)
errorObjFromImgapiImage(image) ==
    IF "code" \in DOMAIN image.error
       /\ image.error.code \in {"PrepareImageDidNotRun", "VmHasNoOrigin", "NotSupported"}
    THEN [code |-> image.error.code, message |-> image.error.message]
    ELSE [code |-> "InternalError",
          message |-> "an unexpected error occurred (Contact support for assistance.)"]

\* translate: the bleeding-edge condition on the request (reqBleedingEdge
\* copies the two config values onto the request).
BleedingEdge(r) ==
    config.img_mgmt /\ (WhitelistLookup(r.login) \/ WhitelistLookup("*"))

\* A faulty variant of TranslateFields: the endpoint is not looked at.
TranslateFields_anyEndpoint(r) ==
    {"tags"}
    \cup (IF semver_satisfies(V700, r.version)
          THEN {"homepage", "published_at"} ELSE {})
    \cup (IF semver_satisfies(V710, r.version) \/ BleedingEdge(r)
          THEN {"owner", "homepage", "published_at", "public", "state", "eula",
                "acl", "origin", "error"}
          ELSE {})

\* translate: the names in `fields` for the request.
TranslateFields(r) ==
    {"tags"}
    \cup (IF ~IsDeprecatedEndpoint(r.url) /\ semver_satisfies(V700, r.version)
          THEN {"homepage", "published_at"} ELSE {})
    \cup (IF ~IsDeprecatedEndpoint(r.url)
             /\ (semver_satisfies(V710, r.version) \/ BleedingEdge(r))
          THEN {"owner", "homepage", "published_at", "public", "state", "eula",
                "acl", "origin", "error"}
          ELSE {})

\* translate: obj.requirements
TranslateRequirements(dataset) ==
    IF "requirements" \in DOMAIN dataset
    THEN [password |-> dataset.requirements.password]
         @@ (IF "max_ram" \in DOMAIN dataset.requirements
             THEN [max_memory |-> dataset.requirements.max_ram,
                   max_ram |-> dataset.requirements.max_ram]
             ELSE <<>>)
         @@ (IF "min_ram" \in DOMAIN dataset.requirements
             THEN [min_memory |-> dataset.requirements.min_ram,
                   min_ram |-> dataset.requirements.min_ram]
             ELSE <<>>)
    ELSE <<>>

\* A faulty variant of translate: a declared version '*' gets the 6.5-only
\* fields as well.
datasets_translate_starLegacy(r, dataset) ==
    LET v == r.version
        copied == TranslateFields(r) \cap DOMAIN dataset
    IN  [id |-> dataset.uuid, name |-> dataset.name, version |-> dataset.version,
         requirements |-> TranslateRequirements(dataset)]
        @@ Opt("os" \in DOMAIN dataset, "os", dataset.os)
        @@ Opt("type" \in DOMAIN dataset, "type",
               IF dataset.type = "zvol" THEN "virtualmachine" ELSE "smartmachine")
        @@ Opt("description" \in DOMAIN dataset, "description", dataset.description)
        @@ Opt("urn" \in DOMAIN dataset /\ IsDeprecatedEndpoint(r.url),
               "urn", dataset.urn)
        @@ (IF semver_satisfies(V650, v)
            THEN [default |-> \E d \in r.dataset : d.uuid = dataset.uuid]
                 @@ Opt("published_at" \in DOMAIN dataset, "created",
                        dataset.published_at)
            ELSE <<>>)
        @@ [f \in copied |->
                IF f = "error" THEN errorObjFromImgapiImage(dataset)
                ELSE dataset[f]]

\* datasets.js translate(req, dataset)
datasets_translate(r, dataset) ==
    LET v == r.version
        copied == TranslateFields(r) \cap DOMAIN dataset
    IN  [id |-> dataset.uuid, name |-> dataset.name, version |-> dataset.version,
         requirements |-> TranslateRequirements(dataset)]
        @@ Opt("os" \in DOMAIN dataset, "os", dataset.os)
        @@ Opt("type" \in DOMAIN dataset, "type",
               IF dataset.type = "zvol" THEN "virtualmachine" ELSE "smartmachine")
        @@ Opt("description" \in DOMAIN dataset, "description", dataset.description)
        @@ Opt("urn" \in DOMAIN dataset /\ IsDeprecatedEndpoint(r.url),
               "urn", dataset.urn)
        @@ (IF v # <<"*">> /\ semver_satisfies(V650, v)
            THEN [default |-> \E d \in r.dataset : d.uuid = dataset.uuid]
                 @@ Opt("published_at" \in DOMAIN dataset, "created",
                        dataset.published_at)
            ELSE <<>>)
        @@ [f \in copied |->
                IF f = "error" THEN errorObjFromImgapiImage(dataset)
                ELSE dataset[f]]

\* list.reduce(function (a, b) { gte(valid(a.version), valid(b.version)) ? a : b })
\* on a list that is not empty, from the left.
RECURSIVE ReduceGte(_)
ReduceGte(list) ==
    IF Len(list) = 1 THEN list[1]
    ELSE LET a == ReduceGte(SubSeq(list, 1, Len(list) - 1))
             b == list[Len(list)]
         IN  IF semver_gte(semver_valid(a.version), semver_valid(b.version))
             THEN a ELSE b

\* list.filter(pred), the order kept.
RECURSIVE FilterSeq(_, _)
FilterSeq(list, keep) ==
    IF list = <<>> THEN <<>>
    ELSE LET rest == FilterSeq(Tail(list), keep)
         IN  IF Head(list) \in keep THEN <<Head(list)>> \o rest ELSE rest

\* The elements of a list, as a set.
Elems(list) == { list[i] : i \in DOMAIN list }

\* curImg65(req, cb): req.dataset afterwards.  datasets is req.datasets,
\* cur is req.dataset before.
curImg65(params, datasets, cur) ==
    LET d == ParamOr(params, "dataset", "image")
        matches ==
            IF d # {}
            THEN { i \in Elems(datasets) :
                    \E x \in d : \/ x = i.uuid
                                 \/ ("urn" \in DOMAIN i /\ x = i.urn)
                                 \/ x = i.name }
            ELSE { i \in Elems(datasets) : i.name = "smartos" }
        dataset == FilterSeq(datasets, matches)
    IN  IF dataset # <<>> THEN {ReduceGte(dataset)} ELSE cur

\* A faulty variant of curImg70: the scan does not stop at the first match.
curImg70_noBreak(params, datasets, cur) ==
    LET id == ParamOr(params, "image", "dataset")
        hits == { i \in DOMAIN datasets :
                    \E x \in id : \/ x = datasets[i].uuid
                                  \/ ("urn" \in DOMAIN datasets[i]
                                        /\ x = datasets[i].urn) }
    IN  IF hits # {}
        THEN {datasets[CHOOSE i \in hits : \A j \in hits : i >= j]}
        ELSE cur

\* curImg70(req, cb): req.dataset afterwards.
curImg70(params, datasets, cur) ==
    LET id == ParamOr(params, "image", "dataset")
        hits == { i \in DOMAIN datasets :
                    \E x \in id : \/ x = datasets[i].uuid
                                  \/ ("urn" \in DOMAIN datasets[i]
                                        /\ x = datasets[i].urn) }
    IN  IF hits # {}
        THEN {datasets[CHOOSE i \in hits : \A j \in hits : i <= j]}
        ELSE cur

\* load: var loadCurFunc = (/6\.5/.test(req.getVersion())) ? curImg65 : curImg70
loadCurFunc(version, params, datasets, cur) ==
    IF Test65(version) THEN curImg65(params, datasets, cur)
    ELSE curImg70(params, datasets, cur)

\* ------------------------------------------------------ middleware chain

\* next(): the chain goes on at pc2.
NextOk(r, pc2) ==
    [r EXCEPT !.pc = pc2, !.nexts = @ + 1]

\* next(err): the chain ends, the error goes to the server's error handler.
NextErr(r, e) ==
    [r EXCEPT !.pc = "done", !.nextErr = e, !.nexts = @ + 1]

\* ------------------------------------------------------ datasets.js load

ImgFilterParams ==
    {"name", "os", "version", "public", "state", "owner", "type"}

\* loadImages: opts.type for a type parameter (undefined for any other word).
ImgTypeOf(t) ==
    IF t = "smartmachine" THEN {"zone-dataset"}
    ELSE IF t = "virtualmachine" THEN {"zvol"} ELSE {}

\* loadImages: the opts of listImages.
loadImagesOpts(r) ==
    [account |-> r.account]
    @@ (IF /\ ~HasSeg(r.url, "machines")
           /\ (HasSeg(r.url, "images") \/ HasSeg(r.url, "datasets"))
           /\ ~(HasSegSlash(r.url, "images") \/ HasSegSlash(r.url, "datasets"))
        THEN [k \in (DOMAIN r.params \cap (ImgFilterParams \ {"type"})) |-> r.params[k]]
             @@ (IF "type" \in DOMAIN r.params /\ ImgTypeOf(r.params.type) # {}
                 THEN [type |-> CHOOSE t \in ImgTypeOf(r.params.type) : TRUE]
                 ELSE <<>>)
        ELSE <<>>)

\* A faulty variant of WantsDisabledImages: the method is not looked at.
WantsDisabledImages_anyMethod(r) ==
    /\ HasSeg(r.url, "machines")
    /\ ~HasSegSlash(r.url, "machines")

\* loadDisabledImages: only for a machines listing.
WantsDisabledImages(r) ==
    /\ HasSeg(r.url, "machines")
    /\ ~HasSegSlash(r.url, "machines")
    /\ r.method # "POST"

\* A faulty variant of getImage: a destroyed image is selected like any other.
getImage_cb_keepDestroyed(s) ==
    /\ rq[s].pc = "imgapi.getImage"
    /\ \E o \in ImgapiGetOutcomes(rq[s].calls[Len(rq[s].calls)].uuid) :
        LET r == [rq[s] EXCEPT !.answers = Append(@, o.err)]
        IN  rq' = [rq EXCEPT ![s] =
                IF o.err # NoErr THEN NextErr(r, o.err)
                ELSE NextOk([r EXCEPT !.dataset = o.img], "packages.load")]
    /\ UNCHANGED <<cacheStore, now, last, config, boot>>

\* getImage: the callback it gives to loadImage.
getImage_cb(s) ==
    /\ rq[s].pc = "imgapi.getImage"
    /\ \E o \in ImgapiGetOutcomes(rq[s].calls[Len(rq[s].calls)].uuid) :
        LET r == [rq[s] EXCEPT !.answers = Append(@, o.err)]
        IN  rq' = [rq EXCEPT ![s] =
                IF o.err # NoErr THEN NextErr(r, o.err)
                ELSE IF \E i \in o.img : i.state = "destroyed"
                THEN NextErr(r, "ResourceNotFoundError")
                ELSE NextOk([r EXCEPT !.dataset = o.img], "packages.load")]
    /\ UNCHANGED <<cacheStore, now, last, config, boot>>

\* getImage(req, res, next) up to the call of imgapi.getImage in loadImage.
getImage(r) ==
    IF r.dataset # {} THEN NextOk(r, "packages.load")
    ELSE [WithCall(r, [api |-> "imgapi.getImage",
                       uuid |-> CHOOSE x \in ParamOr(r.params, "dataset", "image") : TRUE,
                       opts |-> <<>>])
            EXCEPT !.pc = "imgapi.getImage"]

\* load(req, res, next) up to its first backend call or its call of next.
datasets_load(s) ==
    /\ rq[s].pc = "datasets.load"
    /\ LET r == [rq[s] EXCEPT !.dataset = {}]
           imageUUID == ParamOr(r.params, "image", "dataset")
       IN  rq' = [rq EXCEPT ![s] =
            IF IsPing(r.url) THEN NextOk(rq[s], "packages.load")
            ELSE IF imageUUID # {} /\ \A x \in imageUUID : UUID_RE(x)
            THEN getImage(r)
            ELSE IF HasSegSlash(r.url, "machines") THEN NextOk(r, "packages.load")
            ELSE IF ~(HasSeg(r.url, "datasets") \/ HasSeg(r.url, "machines")
                        \/ HasSeg(r.url, "images"))
            THEN NextOk(r, "packages.load")
            ELSE [WithCall(r, [api |-> "imgapi.listImages", opts |-> loadImagesOpts(r)])
                    EXCEPT !.pc = "imgapi.listImages"]]
    /\ UNCHANGED <<cacheStore, now, last, config, boot>>

\* load: after loadDisabledImages answered imgs: concat, loadCurFunc, next.
AfterDisabledImages(r, imgs) ==
    LET all == (CHOOSE l \in r.datasets : TRUE) \o imgs
    IN  NextOk([r EXCEPT !.datasets = {all},
                         !.dataset = loadCurFunc(r.version, r.params, all, r.dataset)],
               "packages.load")

\* A faulty variant of loadImages_cb: a failed listing counts as an empty one.
loadImages_cb_ignoreErr(s) ==
    /\ rq[s].pc = "imgapi.listImages"
    /\ \E o \in ImgapiListOutcomes(rq[s].calls[Len(rq[s].calls)].opts) :
        LET r == [rq[s] EXCEPT !.answers = Append(@, o.err)]
            r1 == [r EXCEPT !.datasets = {o.imgs}]
        IN  rq' = [rq EXCEPT ![s] =
                IF WantsDisabledImages(r1)
                THEN [WithCall(r1, [api |-> "imgapi.listImages",
                                    opts |-> [state |-> "disabled"]])
                        EXCEPT !.pc = "imgapi.listDisabled"]
                ELSE AfterDisabledImages(r1, <<>>)]
    /\ UNCHANGED <<cacheStore, now, last, config, boot>>

\* load: the callback it gives to loadImages.
loadImages_cb(s) ==
    /\ rq[s].pc = "imgapi.listImages"
    /\ \E o \in ImgapiListOutcomes(rq[s].calls[Len(rq[s].calls)].opts) :
        LET r == [rq[s] EXCEPT !.answers = Append(@, o.err)]
            r1 == [r EXCEPT !.datasets = {o.imgs}]
        IN  rq' = [rq EXCEPT ![s] =
                IF o.err # NoErr THEN NextErr(r, o.err)
                ELSE IF WantsDisabledImages(r1)
                THEN [WithCall(r1, [api |-> "imgapi.listImages",
                                    opts |-> [state |-> "disabled"]])
                        EXCEPT !.pc = "imgapi.listDisabled"]
                ELSE AfterDisabledImages(r1, <<>>)]
    /\ UNCHANGED <<cacheStore, now, last, config, boot>>

\* load: the callback it gives to loadDisabledImages.
loadDisabledImages_cb(s) ==
    /\ rq[s].pc = "imgapi.listDisabled"
    /\ \E o \in ImgapiListOutcomes(rq[s].calls[Len(rq[s].calls)].opts) :
        LET r == [rq[s] EXCEPT !.answers = Append(@, o.err)]
        IN  rq' = [rq EXCEPT ![s] =
                IF o.err # NoErr THEN NextErr(r, o.err)
                ELSE AfterDisabledImages(r, o.imgs)]
    /\ UNCHANGED <<cacheStore, now, last, config, boot>>

\* ------------------------------------------------ packages.js loadPackages

\* A faulty variant of loadPackagesCall: the packages of a resize are listed
\* without the active restriction.
loadPackagesCall_anyState(r) ==
    LET ownerUuid == r.account
    IN  IF "package" \in DOMAIN r.params
        THEN IF UUID_RE(r.params.package)
             THEN {[api |-> "papi.get", uuid |-> r.params.package,
                    opts |-> [owner_uuids |-> ownerUuid]]}
             ELSE {[api |-> "papi.list",
                    opts |-> [name |-> r.params.package, owner_uuids |-> ownerUuid,
                              active |-> TRUE]]}
        ELSE IF EndsWith(r.url, "machines") /\ r.method # "POST"
        THEN {[api |-> "papi.list", opts |-> <<>>]}
        ELSE IF r.method # "POST"
                \/ ~("action" \in DOMAIN r.params /\ r.params.action = "resize")
        THEN {}
        ELSE {[api |-> "papi.list", opts |-> [owner_uuids |-> ownerUuid]]}

\* A faulty variant of loadPackagesCall: the packages of a machines listing
\* are listed for the tenant only.
loadPackagesCall_ownedListing(r) ==
    LET ownerUuid == r.account
    IN  IF "package" \in DOMAIN r.params
        THEN IF UUID_RE(r.params.package)
             THEN {[api |-> "papi.get", uuid |-> r.params.package,
                    opts |-> [owner_uuids |-> ownerUuid]]}
             ELSE {[api |-> "papi.list",
                    opts |-> [name |-> r.params.package, owner_uuids |-> ownerUuid,
                              active |-> TRUE]]}
        ELSE IF EndsWith(r.url, "machines") /\ r.method # "POST"
        THEN {[api |-> "papi.list", opts |-> [owner_uuids |-> ownerUuid]]}
        ELSE IF r.method # "POST"
                \/ ~("action" \in DOMAIN r.params /\ r.params.action = "resize")
        THEN {}
        ELSE {[api |-> "papi.list",
               opts |-> [owner_uuids |-> ownerUuid, active |-> TRUE]]}

\* A faulty variant of loadPackagesCall: the action of a POST is not looked
\* at.
loadPackagesCall_anyAction(r) ==
    LET ownerUuid == r.account
    IN  IF "package" \in DOMAIN r.params
        THEN IF UUID_RE(r.params.package)
             THEN {[api |-> "papi.get", uuid |-> r.params.package,
                    opts |-> [owner_uuids |-> ownerUuid]]}
             ELSE {[api |-> "papi.list",
                    opts |-> [name |-> r.params.package, owner_uuids |-> ownerUuid,
                              active |-> TRUE]]}
        ELSE IF EndsWith(r.url, "machines") /\ r.method # "POST"
        THEN {[api |-> "papi.list", opts |-> <<>>]}
        ELSE IF r.method # "POST"
        THEN {}
        ELSE {[api |-> "papi.list",
               opts |-> [owner_uuids |-> ownerUuid, active |-> TRUE]]}

\* loadPackages: the backend call it makes for the request, if any, in the
\* order of its tests: by uuid, by name, the unrestricted list of a machines
\* listing, the owner's active packages of a resize.
loadPackagesCall(r) ==
    LET ownerUuid == r.account
    IN  IF "package" \in DOMAIN r.params
        THEN IF UUID_RE(r.params.package)
             THEN {[api |-> "papi.get", uuid |-> r.params.package,
                    opts |-> [owner_uuids |-> ownerUuid]]}
             ELSE {[api |-> "papi.list",
                    opts |-> [name |-> r.params.package, owner_uuids |-> ownerUuid,
                              active |-> TRUE]]}
        ELSE IF EndsWith(r.url, "machines") /\ r.method # "POST"
        THEN {[api |-> "papi.list", opts |-> <<>>]}
        ELSE IF r.method # "POST"
                \/ ~("action" \in DOMAIN r.params /\ r.params.action = "resize")
        THEN {}
        ELSE {[api |-> "papi.list",
               opts |-> [owner_uuids |-> ownerUuid, active |-> TRUE]]}

\* The pc at which the answer to the call of loadPackagesCall is awaited.
loadPackagesWait(r) ==
    IF "package" \in DOMAIN r.params
    THEN IF UUID_RE(r.params.package) THEN "papi.get" ELSE "papi.listByName"
    ELSE IF EndsWith(r.url, "machines") /\ r.method # "POST" THEN "papi.listAll"
    ELSE "papi.listDefault"

\* A faulty variant of loadPackages: the packages listing is not skipped.
loadPackages_noSkip(s) ==
    /\ rq[s].pc = "packages.load"
    /\ LET r == [rq[s] EXCEPT !.pkg = {}]
       IN  rq' = [rq EXCEPT ![s] =
            IF IsPing(r.url) THEN NextOk(rq[s], "handler")
            ELSE IF loadPackagesCall(r) = {} THEN NextOk(r, "handler")
            ELSE [WithCall(r, CHOOSE c \in loadPackagesCall(r) : TRUE)
                    EXCEPT !.pc = loadPackagesWait(r)]]
    /\ UNCHANGED <<cacheStore, now, last, config, boot>>

\* loadPackages(req, res, next) up to its backend call or its call of next.
loadPackages(s) ==
    /\ rq[s].pc = "packages.load"
    /\ LET r == [rq[s] EXCEPT !.pkg = {}]
       IN  rq' = [rq EXCEPT ![s] =
            IF IsPing(r.url) THEN NextOk(rq[s], "handler")
            ELSE IF EndsWith(r.url, "packages") THEN NextOk(r, "handler")
            ELSE IF loadPackagesCall(r) = {} THEN NextOk(r, "handler")
            ELSE [WithCall(r, CHOOSE c \in loadPackagesCall(r) : TRUE)
                    EXCEPT !.pc = loadPackagesWait(r)]]
    /\ UNCHANGED <<cacheStore, now, last, config, boot>>

\* The opts of the request's latest backend call.
LastOpts(r) == r.calls[Len(r.calls)].opts

\* loadPackages: the callback it gives to papi.get.
loadPackages_getCb(s) ==
    /\ rq[s].pc = "papi.get"
    /\ \E o \in PapiGetOutcomes(rq[s].calls[Len(rq[s].calls)].uuid, LastOpts(rq[s])) :
        LET r == [rq[s] EXCEPT !.answers = Append(@, o.err)]
        IN  rq' = [rq EXCEPT ![s] =
                IF o.err # NoErr THEN NextErr(r, o.err)
                ELSE NextOk([r EXCEPT !.pkg = o.pkg], "handler")]
    /\ UNCHANGED <<cacheStore, now, last, config, boot>>

\* A faulty variant of loadPackages_nameCb: an empty result is raised as an error.
loadPackages_nameCb_raise(s) ==
    /\ rq[s].pc = "papi.listByName"
    /\ \E o \in PapiListOutcomes(LastOpts(rq[s])) :
        LET r == [rq[s] EXCEPT !.answers = Append(@, o.err)]
        IN  rq' = [rq EXCEPT ![s] =
                IF o.err # NoErr THEN NextErr(r, o.err)
                ELSE IF o.pkgs = <<>> THEN NextErr(r, "ResourceNotFoundError")
                ELSE NextOk([r EXCEPT !.pkg = {ReduceGte(o.pkgs)}], "handler")]
    /\ UNCHANGED <<cacheStore, now, last, config, boot>>

\* loadPackages: the callback it gives to papi.list for a package name.
loadPackages_nameCb(s) ==
    /\ rq[s].pc = "papi.listByName"
    /\ \E o \in PapiListOutcomes(LastOpts(rq[s])) :
        LET r == [rq[s] EXCEPT !.answers = Append(@, o.err)]
        IN  rq' = [rq EXCEPT ![s] =
                IF o.err # NoErr THEN NextErr(r, o.err)
                ELSE IF o.pkgs = <<>> THEN NextOk(r, "handler")
                ELSE NextOk([r EXCEPT !.pkg = {ReduceGte(o.pkgs)}], "handler")]
    /\ UNCHANGED <<cacheStore, now, last, config, boot>>

\* A faulty variant of loadPackages_allCb: next(err) without return, so that
\* the callback goes on and calls next a second time.
loadPackages_allCb_noReturn(s) ==
    /\ rq[s].pc = "papi.listAll"
    /\ \E o \in PapiListOutcomes(LastOpts(rq[s])) :
        LET r == [rq[s] EXCEPT !.answers = Append(@, o.err)]
        IN  rq' = [rq EXCEPT ![s] =
                IF o.err # NoErr
                THEN [NextErr(r, o.err) EXCEPT !.nexts = @ + 1]
                ELSE NextOk([r EXCEPT !.packages = {o.pkgs}], "handler")]
    /\ UNCHANGED <<cacheStore, now, last, config, boot>>

\* loadPackages: the callback it gives to papi.list for a machines listing.
loadPackages_allCb(s) ==
    /\ rq[s].pc = "papi.listAll"
    /\ \E o \in PapiListOutcomes(LastOpts(rq[s])) :
        LET r == [rq[s] EXCEPT !.answers = Append(@, o.err)]
        IN  rq' = [rq EXCEPT ![s] =
                IF o.err # NoErr THEN NextErr(r, o.err)
                ELSE NextOk([r EXCEPT !.packages = {o.pkgs}], "handler")]
    /\ UNCHANGED <<cacheStore, now, last, config, boot>>

\* A faulty variant of loadPackages_defaultCb: req.packages keeps only the
\* packages that are not default-flagged.
loadPackages_defaultCb_dropDefaults(s) ==
    /\ rq[s].pc = "papi.listDefault"
    /\ \E o \in PapiListOutcomes(LastOpts(rq[s])) :
        LET r == [rq[s] EXCEPT !.answers = Append(@, o.err)]
            pkg == FilterSeq(o.pkgs, { p \in Elems(o.pkgs) : p.default = TRUE })
            rest == FilterSeq(o.pkgs, { p \in Elems(o.pkgs) : p.default # TRUE })
        IN  rq' = [rq EXCEPT ![s] =
                IF o.err # NoErr THEN NextErr(r, o.err)
                ELSE NextOk([r EXCEPT !.packages = {rest},
                                      !.pkg = IF pkg # <<>> THEN {ReduceGte(pkg)}
                                              ELSE @],
                            "handler")]
    /\ UNCHANGED <<cacheStore, now, last, config, boot>>

\* loadPackages: the callback it gives to papi.list for a resize: the
\* default-flagged package of the greatest version, if there is one.
loadPackages_defaultCb(s) ==
    /\ rq[s].pc = "papi.listDefault"
    /\ \E o \in PapiListOutcomes(LastOpts(rq[s])) :
        LET r == [rq[s] EXCEPT !.answers = Append(@, o.err)]
            pkg == FilterSeq(o.pkgs, { p \in Elems(o.pkgs) : p.default = TRUE })
        IN  rq' = [rq EXCEPT ![s] =
                IF o.err # NoErr THEN NextErr(r, o.err)
                ELSE NextOk([r EXCEPT !.packages = {o.pkgs},
                                      !.pkg = IF pkg # <<>> THEN {ReduceGte(pkg)}
                                              ELSE @],
                            "handler")]
    /\ UNCHANGED <<cacheStore, now, last, config, boot>>

\* ------------------------------------------------------- route handlers

\* packages.js get(req, res, next)
packages_get(s) ==
    /\ rq[s].pc = "route"
    /\ rq[s].route \in {"GetPackage", "HeadPackage"}
    /\ rq' = [rq EXCEPT ![s] =
            IF rq[s].pkg = {} THEN NextErr(rq[s], "ResourceNotFoundError")
            ELSE [rq[s] EXCEPT
                    !.sent = Append(@, packages_translate(rq[s].version,
                                            CHOOSE p \in rq[s].pkg : TRUE)),
                    !.pc = "done", !.nexts = @ + 1]]
    /\ UNCHANGED <<cacheStore, now, last, config, boot>>

\* datasets.js list(req, res, next): the body it sends.
datasets_list_body(r) ==
    LET all == CHOOSE l \in r.datasets : TRUE
        datasets == [i \in DOMAIN all |-> datasets_translate(r, all[i])]
    IN  IF Test65(r.version)
        THEN FilterSeq(datasets, { d \in Elems(datasets) : "urn" \in DOMAIN d })
        ELSE datasets

\* datasets.js list(req, res, next)
datasets_list(s) ==
    /\ rq[s].pc = "route"
    /\ rq[s].route \in {"ListDatasets", "ListImages"}
    /\ rq' = [rq EXCEPT ![s].sent = Append(@, datasets_list_body(rq[s])),
                        ![s].pc = "done", ![s].nexts = @ + 1]
    /\ UNCHANGED <<cacheStore, now, last, config, boot>>

\* datasets.js get(req, res, next)
datasets_get(s) ==
    /\ rq[s].pc = "route"
    /\ rq[s].route \in {"GetDataset", "GetImage"}
    /\ rq' = [rq EXCEPT ![s] =
            IF rq[s].dataset = {} THEN NextErr(rq[s], "ResourceNotFoundError")
            ELSE [rq[s] EXCEPT
                    !.sent = Append(@, datasets_translate(rq[s],
                                            CHOOSE d \in rq[s].dataset : TRUE)),
                    !.pc = "done", !.nexts = @ + 1]]
    /\ UNCHANGED <<cacheStore, now, last, config, boot>>

\* The routes whose handlers are outside packages.js and datasets.js: the
\* preloads have run, the request leaves the part of the chain looked at.
OtherRoutes ==
    {"Ping", "ListMachines", "CreateMachine", "GetMachine", "UpdateMachine",
     "ReplaceMachineTags"}

other_handler(s) ==
    /\ rq[s].pc = "route"
    /\ rq[s].route \in OtherRoutes
    /\ rq' = [rq EXCEPT ![s].pc = "done"]
    /\ UNCHANGED <<cacheStore, now, last, config, boot>>

\* ------------------------------------------ bleeding-edge image routes

\* The routes mounted behind bleedingEdgeGuard(config, 'img_mgmt').
GatedRoutes == {"CreateImageFromMachine", "ExportImage", "DeleteImage"}

\* A faulty variant of GuardAllows: the feature flag alone decides.
GuardAllows_flagOnly(r) ==
    config.img_mgmt

\* bleedingEdgeGuard(config, 'img_mgmt'): the request may pass.
GuardAllows(r) ==
    /\ config.img_mgmt
    /\ (WhitelistLookup(r.login) \/ WhitelistLookup("*"))

\* bleedingEdgeFeature / bleedingEdgeHide: first handler of a gated route,
\* after the server's preloads.
bleedingEdgeGuard(s) ==
    /\ rq[s].pc = "route"
    /\ rq[s].route \in GatedRoutes
    /\ rq' = [rq EXCEPT ![s] =
            IF GuardAllows(rq[s]) THEN NextOk(rq[s], "gated")
            ELSE NextErr(rq[s], "ResourceNotFoundError")]
    /\ UNCHANGED <<cacheStore, now, last, config, boot>>

\* create: data, the manifest it sends (the optional manifest attributes are
\* not among the parameters of the requests looked at).
createData(r) ==
    [name |-> r.params.name, version |-> r.params.version]

\* create(req, res, next) up to the call of imgapi.createImageFromVm.
datasets_create(s) ==
    /\ rq[s].pc = "gated"
    /\ rq[s].route = "CreateImageFromMachine"
    /\ rq' = [rq EXCEPT ![s] =
            IF {"machine", "name", "version"} \subseteq DOMAIN rq[s].params
            THEN [WithCall(rq[s], [api |-> "imgapi.createImageFromVm",
                                   data |-> createData(rq[s]),
                                   vm_uuid |-> rq[s].params.machine,
                                   opts |-> [account |-> rq[s].account]])
                    EXCEPT !.pc = "imgapi.createImageFromVm"]
            ELSE NextErr(rq[s], "MissingParameterError")]
    /\ UNCHANGED <<cacheStore, now, last, config, boot>>

\* imgapi.createImageFromVm(data, opts, account, cb): cb(err) or
\* cb(null, job) with the uuid of the image being created.
CreateOutcomes ==
    { [err |-> "ImgapiError", image_uuid |-> ""],
      [err |-> NoErr, image_uuid |-> "u-new"] }

\* create: the callback it gives to createImageFromVm.
datasets_create_cb(s) ==
    /\ rq[s].pc = "imgapi.createImageFromVm"
    /\ \E o \in CreateOutcomes :
        LET r == [rq[s] EXCEPT !.answers = Append(@, o.err)]
            data == createData(r) @@ [uuid |-> o.image_uuid, state |-> "creating"]
        IN  rq' = [rq EXCEPT ![s] =
                IF o.err # NoErr THEN NextErr(r, o.err)
                ELSE [r EXCEPT !.sent = Append(@, datasets_translate(r, data)),
                               !.pc = "done", !.nexts = @ + 1]]
    /\ UNCHANGED <<cacheStore, now, last, config, boot>>

\* exportImage(req, res, next) up to the call of imgapi.exportImage.
exportImage(s) ==
    /\ rq[s].pc = "gated"
    /\ rq[s].route = "ExportImage"
    /\ rq' = [rq EXCEPT ![s] =
            IF ~("action" \in DOMAIN rq[s].params /\ rq[s].params.action = "export")
            THEN NextErr(rq[s], "InvalidArgumentError")
            ELSE IF "manta_path" \notin DOMAIN rq[s].params
            THEN NextErr(rq[s], "MissingParameterError")
            ELSE [WithCall(rq[s], [api |-> "imgapi.exportImage",
                                   uuid |-> CHOOSE x \in ParamOr(rq[s].params,
                                                        "image", "dataset") : TRUE,
                                   opts |-> [account |-> rq[s].account,
                                             manta_path |-> rq[s].params.manta_path]])
                    EXCEPT !.pc = "imgapi.exportImage"]]
    /\ UNCHANGED <<cacheStore, now, last, config, boot>>

\* imgapi.exportImage(uuid, account, opts, cb): cb(err) or cb(null, obj).
ExportOutcomes(call) ==
    { [err |-> "ImgapiError", obj |-> <<>>] }
    \cup (IF \E i \in Images : i.uuid = call.uuid /\ i.owner = call.opts.account
          THEN { [err |-> NoErr,
                  obj |-> [manta_url |-> "manta", image_path |-> call.opts.manta_path]] }
          ELSE { [err |-> "ImgapiResourceNotFound", obj |-> <<>>] })

\* A faulty variant of exportImage_cb: the body is written before the error
\* of the backend is looked at.
exportImage_cb_sendThenFail(s) ==
    /\ rq[s].pc = "imgapi.exportImage"
    /\ \E o \in ExportOutcomes(rq[s].calls[Len(rq[s].calls)]) :
        LET r == [rq[s] EXCEPT !.answers = Append(@, o.err),
                               !.sent = Append(@, o.obj)]
        IN  rq' = [rq EXCEPT ![s] =
                IF o.err # NoErr THEN NextErr(r, o.err)
                ELSE [r EXCEPT !.pc = "done", !.nexts = @ + 1]]
    /\ UNCHANGED <<cacheStore, now, last, config, boot>>

\* exportImage: the callback it gives to imgapi.exportImage.
exportImage_cb(s) ==
    /\ rq[s].pc = "imgapi.exportImage"
    /\ \E o \in ExportOutcomes(rq[s].calls[Len(rq[s].calls)]) :
        LET r == [rq[s] EXCEPT !.answers = Append(@, o.err)]
        IN  rq' = [rq EXCEPT ![s] =
                IF o.err # NoErr THEN NextErr(r, o.err)
                ELSE [r EXCEPT !.sent = Append(@, o.obj),
                               !.pc = "done", !.nexts = @ + 1]]
    /\ UNCHANGED <<cacheStore, now, last, config, boot>>

\* A faulty variant of apiDeleteImage: del(req, res, next), which the module
\* defines and does not mount.
apiDeleteImage_del(s) ==
    /\ rq[s].pc = "gated"
    /\ rq[s].route = "DeleteImage"
    /\ rq' = [rq EXCEPT ![s] =
            [WithCall(rq[s], [api |-> "imgapi.deleteImage",
                              uuid |-> rq[s].params.dataset,
                              opts |-> [account |-> rq[s].account]])
                EXCEPT !.sent = Append(@, "204"), !.pc = "done", !.nexts = @ + 1]]
    /\ UNCHANGED <<cacheStore, now, last, config, boot>>

\* apiDeleteImage(req, res, next): e.body.code = 'NotSupported'.
apiDeleteImage(s) ==
    /\ rq[s].pc = "gated"
    /\ rq[s].route = "DeleteImage"
    /\ rq' = [rq EXCEPT ![s] = NextErr(rq[s], "NotSupported")]
    /\ UNCHANGED <<cacheStore, now, last, config, boot>>

\* ------------------------------------------------------------- requests

\* config.version without version(): the versions of an unversioned route.
ServerVersions == {V720, V700, V650}

\* The versions of the /images routes.
ImageRouteVersions == {V700, V710}

\* restify's routing: the declared version finds the route when one of the
\* route's versions satisfies it.
RouteAdmits(route, v) ==
    \E w \in (IF route \in {"ListImages", "GetImage"} \cup GatedRoutes
              THEN ImageRouteVersions
              ELSE ServerVersions) :
        semver_satisfies(w, v)

\* What a client names a package by.
PackageRefs == {"u-p1", "u-p2", "u-p3", "u-p4", "u-none", "small", "big", "nope"}

\* What a client names an image by.
ImageRefs ==
    {"u-i1", "u-i2", "u-i3", "u-i4", "u-i5", "u-i6", "u-none",
     "sdc:sdc:smartos:1.2.0", "smartos", "mine", "nope"}

\* What a client names an image by on the gated routes.
GatedImageRefs == {"u-i3", "u-i6", "u-none", "mine"}

\* The parameters of an image creation; one of them may be missing.
CreateParamValue ==
    [machine |-> "m1", name |-> "myimg", version |-> <<"1", ".", "0", ".", "0">>]

\* The value an image filter parameter carries when the client sends it.
ImgFilterValue ==
    [name |-> "smartos", os |-> "linux", version |-> <<"1", ".", "2", ".", "0">>,
     public |-> TRUE, state |-> "all", owner |-> "t1", type |-> "smartmachine"]

ImgFilterChoices ==
    { [k \in D |-> ImgFilterValue[k]] :
        D \in { E \in SUBSET ImgFilterParams : Cardinality(E) <= MaxFilters } }

\* The requests a client sends: [method, url, route, params].
RequestShapes ==
    { [method |-> "GET", url |-> <<"--ping">>, route |-> "Ping", params |-> <<>>] }
    \cup { [method |-> "GET", url |-> <<"my", "packages", p>>, route |-> "GetPackage",
            params |-> [package |-> p]] : p \in PackageRefs }
    \cup { [method |-> "GET", url |-> <<"my", "machines">>, route |-> "ListMachines",
            params |-> <<>>] }
    \cup { [method |-> "POST", url |-> <<"my", "machines">>, route |-> "CreateMachine",
            params |-> pp @@ ii] :
            pp \in {<<>>} \cup { [package |-> p] : p \in {"u-p1", "u-p4", "small"} },
            ii \in {<<>>} \cup { [image |-> i] : i \in {"u-i4", "u-i6", "smartos"} }
                          \cup { [dataset |-> i] : i \in {"u-i1", "sdc:sdc:smartos:1.2.0"} } }
    \cup { [method |-> "GET", url |-> <<"my", "machines", "m1">>, route |-> "GetMachine",
            params |-> [machine |-> "m1"]] }
    \cup { [method |-> "POST", url |-> <<"my", "machines", "m1">>,
            route |-> "UpdateMachine",
            params |-> [machine |-> "m1", action |-> a] @@ pp] :
            a \in {"resize", "reboot"},
            pp \in {<<>>} \cup { [package |-> p] : p \in {"u-p2", "big"} } }
    \cup { [method |-> "GET", url |-> <<"my", w>>,
            route |-> IF w = "datasets" THEN "ListDatasets" ELSE "ListImages",
            params |-> f] : w \in {"datasets", "images"}, f \in ImgFilterChoices }
    \cup { [method |-> "GET", url |-> <<"my", w, d>>,
            route |-> IF w = "datasets" THEN "GetDataset" ELSE "GetImage",
            params |-> [dataset |-> d]] : w \in {"datasets", "images"}, d \in ImageRefs }
    \cup { [method |-> "POST", url |-> <<"my", "images">>,
            route |-> "CreateImageFromMachine",
            params |-> [k \in D |-> CreateParamValue[k]]] :
            D \in { E \in SUBSET DOMAIN CreateParamValue : Cardinality(E) >= 2 } }
    \cup { [method |-> "POST", url |-> <<"my", "images", d>>, route |-> "ExportImage",
            params |-> [dataset |-> d] @@ x] :
            d \in GatedImageRefs,
            x \in { <<>>, [action |-> "export"],
                    [action |-> "export", manta_path |-> "/alice/stor/img"] } }
    \cup { [method |-> "DELETE", url |-> <<"my", "images", d>>, route |-> "DeleteImage",
            params |-> [dataset |-> d]] : d \in GatedImageRefs }

\* A request arrives and is routed; the chain starts at datasets.load.
NewRequest(s) ==
    /\ rq[s].pc = "idle"
    /\ \E a \in Accounts, v \in DeclaredVersions, q \in RequestShapes :
        /\ RouteAdmits(q.route, v)
        /\ rq' = [rq EXCEPT ![s] =
                [IdleReq EXCEPT !.pc = "datasets.load", !.account = a.uuid,
                                !.login = a.login, !.version = v,
                                !.method = q.method, !.url = q.url,
                                !.route = q.route, !.params = q.params]]
    /\ UNCHANGED <<cacheStore, now, last, config, boot>>

\* GET /--ping arrives; req.url is '/--ping', with or without a package
\* parameter beside it.
NewPingRequest(s) ==
    /\ rq[s].pc = "idle"
    /\ \E a \in ListAccounts, v \in ListVersions,
          ps \in { <<>>, [package |-> "small"] } :
        rq' = [rq EXCEPT ![s] =
                [IdleReq EXCEPT !.pc = "datasets.load", !.account = a.uuid,
                                !.login = a.login, !.version = v,
                                !.method = "GET", !.url = <<"--ping">>,
                                !.route = "Ping", !.params = ps]]
    /\ UNCHANGED <<cacheStore, now, last, config, boot>>


\* --------------------------------------------------------- server start

\* At most this many 'error' and 'connect' events of one client.
MaxEvents == 2

\* A client right after createRedisClient or createUfdsClient: the once
\* listeners of 'error' and 'connect' are registered, the callback has not
\* been called, no event has been emitted.
NewClient ==
    [onceError |-> TRUE, onceConnect |-> TRUE, calls |-> 0, events |-> 0]

\* Before createServer: no client, no call of createClients' callback, no
\* server.
BootIdle ==
    [started |-> FALSE, sameMaster |-> FALSE,
     redis |-> <<>>, ufds |-> <<>>, ufds_master |-> <<>>,
     callbacks |-> <<>>, servers |-> 0, alive |-> TRUE]

\* Whether the client's once listener of the event is still registered.
Fires(c, ev) ==
    IF ev = "error" THEN c.onceError ELSE c.onceConnect

\* The client after the event: a once listener that ran is gone, the
\* 'connect' listener removes every 'error' listener, the 'error' listener
\* leaves the 'connect' listener registered; the callback is called by the
\* once listener that ran.
AfterEvent(c, ev) ==
    [c EXCEPT !.events = @ + 1,
              !.calls = IF Fires(c, ev) THEN @ + 1 ELSE @,
              !.onceError = IF ev = "error" \/ c.onceConnect THEN FALSE ELSE @,
              !.onceConnect = IF ev = "connect" THEN FALSE ELSE @]

\* createServer(config, callback) up to createRedisClient: createClients
\* creates the redis client first.  options.ufds_master.url is 'ldaps://'
\* or not.
createServer ==
    /\ ~boot.started
    /\ \E sm \in BOOLEAN :
        boot' = [boot EXCEPT !.started = TRUE, !.sameMaster = sm,
                             !.redis = <<NewClient>>]
    /\ UNCHANGED <<rq, cacheStore, now, last, config>>

\* The redis client emits ev.  The callback createClients gives to
\* createRedisClient ignores the error and calls createUfdsClient.
createRedisClient_event(ev) ==
    /\ boot.started /\ boot.alive
    /\ boot.redis[1].events < MaxEvents
    /\ boot' = [boot EXCEPT
            !.redis[1] = AfterEvent(boot.redis[1], ev),
            !.ufds = IF Fires(boot.redis[1], ev) THEN Append(@, NewClient) ELSE @]
    /\ UNCHANGED <<rq, cacheStore, now, last, config>>

\* createClients' callback is called with an error: createServer throws it
\* from inside the listener; whether the process lives on is up to the
\* emitter and the process.
ClientsFailed(b, err) ==
    { [b EXCEPT !.callbacks = Append(@, err), !.alive = a] : a \in BOOLEAN }

\* createClients' callback is called with the clients: createServer builds
\* the restify server.
ClientsReady(b) ==
    [b EXCEPT !.callbacks = Append(@, NoErr), !.servers = @ + 1]

\* The i-th client of options.ufds emits ev.  The callback createClients
\* gives to createUfdsClient hands on the error, or ends with the clients
\* when the master is the same instance, or creates the master's client.
createUfdsClient_event(i, ev) ==
    /\ boot.alive
    /\ i \in DOMAIN boot.ufds
    /\ boot.ufds[i].events < MaxEvents
    /\ LET b == [boot EXCEPT !.ufds[i] = AfterEvent(boot.ufds[i], ev)]
       IN  IF ~Fires(boot.ufds[i], ev) THEN boot' = b
           ELSE IF ev = "error" THEN boot' \in ClientsFailed(b, "UfdsError")
           ELSE IF boot.sameMaster THEN boot' = ClientsReady(b)
           ELSE boot' = [b EXCEPT !.ufds_master = Append(@, NewClient)]
    /\ UNCHANGED <<rq, cacheStore, now, last, config>>

\* The i-th client of options.ufds_master emits ev.
createUfdsMaster_event(i, ev) ==
    /\ boot.alive
    /\ i \in DOMAIN boot.ufds_master
    /\ boot.ufds_master[i].events < MaxEvents
    /\ LET b == [boot EXCEPT !.ufds_master[i] = AfterEvent(boot.ufds_master[i], ev)]
       IN  IF ~Fires(boot.ufds_master[i], ev) THEN boot' = b
           ELSE IF ev = "error" THEN boot' \in ClientsFailed(b, "UfdsError")
           ELSE boot' = ClientsReady(b)
    /\ UNCHANGED <<rq, cacheStore, now, last, config>>

ClientEvents == {"error", "connect"}

\* The start of the server: the clients and their events in every order.
InitBoot ==
    /\ rq = [s \in Slots |-> IdleReq]
    /\ cacheStore = [k \in CacheKeys |-> {}]
    /\ now = 0
    /\ last = {}
    /\ config = [img_mgmt |-> FALSE, whitelist |-> {}]
    /\ boot = BootIdle

NextBoot ==
    \/ createServer
    \/ \E ev \in ClientEvents : createRedisClient_event(ev)
    \/ \E ev \in ClientEvents : \E i \in 1..MaxEvents : createUfdsClient_event(i, ev)
    \/ \E ev \in ClientEvents : \E i \in 1..(MaxEvents * MaxEvents) :
            createUfdsMaster_event(i, ev)

SpecBoot == InitBoot /\ [][NextBoot]_vars

\* ---------------------------------------------------------- read-only mode

\* config.read_only set to true or to false, the image management feature
\* on for every tenant.
ReadOnlyConfigs ==
    { [img_mgmt |-> TRUE, whitelist |-> {"*"}] @@ [read_only |-> b] : b \in BOOLEAN }

\* The request shapes, with a HEAD request (packages.js mount, HeadPackage)
\* and a PUT request, whose route belongs to a module other than packages.js
\* and datasets.js.
ReadOnlyShapes ==
    RequestShapes
    \cup { [method |-> "HEAD", url |-> <<"my", "packages", p>>, route |-> "HeadPackage",
            params |-> [package |-> p]] : p \in PackageRefs }
    \cup { [method |-> "PUT", url |-> <<"my", "machines", "m1", "tags">>,
            route |-> "ReplaceMachineTags", params |-> [machine |-> "m1"]] }

\* A request of any shape and method arrives.
NewAnyRequest(s) ==
    /\ rq[s].pc = "idle"
    /\ \E a \in ListAccounts, v \in DeclaredVersions, q \in ReadOnlyShapes :
        /\ RouteAdmits(q.route, v)
        /\ rq' = [rq EXCEPT ![s] =
                [IdleReq EXCEPT !.pc = "datasets.load", !.account = a.uuid,
                                !.login = a.login, !.version = v,
                                !.method = q.method, !.url = q.url,
                                !.route = q.route, !.params = q.params]]
    /\ UNCHANGED <<cacheStore, now, last, config, boot>>

InitReadOnly ==
    /\ rq = [s \in Slots |-> IdleReq]
    /\ cacheStore = [k \in CacheKeys |-> {}]
    /\ now = 0
    /\ last = {}
    /\ config \in ReadOnlyConfigs
    /\ boot = BootIdle

NextReadOnly ==
    \/ \E s \in Slots : NewAnyRequest(s)
    \/ \E s \in Slots : datasets_load(s)
    \/ \E s \in Slots : getImage_cb(s)
    \/ \E s \in Slots : loadImages_cb(s)
    \/ \E s \in Slots : loadDisabledImages_cb(s)
    \/ \E s \in Slots : loadPackages(s)
    \/ \E s \in Slots : loadPackages_getCb(s)
    \/ \E s \in Slots : loadPackages_nameCb(s)
    \/ \E s \in Slots : loadPackages_allCb(s)
    \/ \E s \in Slots : loadPackages_defaultCb(s)
    \/ \E s \in Slots : readOnlyMode(s)
    \/ \E s \in Slots : packages_get(s)
    \/ \E s \in Slots : datasets_list(s)
    \/ \E s \in Slots : datasets_get(s)
    \/ \E s \in Slots : other_handler(s)
    \/ \E s \in Slots : bleedingEdgeGuard(s)
    \/ \E s \in Slots : datasets_create(s)
    \/ \E s \in Slots : datasets_create_cb(s)
    \/ \E s \in Slots : exportImage(s)
    \/ \E s \in Slots : exportImage_cb(s)
    \/ \E s \in Slots : apiDeleteImage(s)
    \/ \E s \in Slots : Finish(s)

SpecReadOnly == InitReadOnly /\ [][NextReadOnly]_vars

\* The package list with its cache and the ping, the clock running.
Init ==
    /\ rq = [s \in Slots |-> IdleReq]
    /\ cacheStore = [k \in CacheKeys |-> {}]
    /\ now = 0
    /\ last = {}
    /\ config = [img_mgmt |-> FALSE, whitelist |-> {}]
    /\ boot = BootIdle

Next ==
    \/ \E s \in Slots : NewListRequest(s)
    \/ \E s \in Slots : NewPingRequest(s)
    \/ \E s \in Slots : other_handler(s)
    \/ \E s \in Slots : datasets_load(s)
    \/ \E s \in Slots : loadPackages(s)
    \/ \E s \in Slots : readOnlyMode(s)
    \/ \E s \in Slots : packages_list(s)
    \/ \E s \in Slots : list_cacheCb(s)
    \/ \E s \in Slots : list_papiCb(s)
    \/ \E s \in Slots : Finish(s)
    \/ Tick

Spec == Init /\ [][Next]_vars

\* Every other request, the preloads and the get and list handlers.
InitLoad ==
    /\ rq = [s \in Slots |-> IdleReq]
    /\ cacheStore = [k \in CacheKeys |-> {}]
    /\ now = 0
    /\ last = {}
    /\ config \in Configs
    /\ boot = BootIdle

NextLoad ==
    \/ \E s \in Slots : NewRequest(s)
    \/ \E s \in Slots : datasets_load(s)
    \/ \E s \in Slots : getImage_cb(s)
    \/ \E s \in Slots : loadImages_cb(s)
    \/ \E s \in Slots : loadDisabledImages_cb(s)
    \/ \E s \in Slots : loadPackages(s)
    \/ \E s \in Slots : loadPackages_getCb(s)
    \/ \E s \in Slots : loadPackages_nameCb(s)
    \/ \E s \in Slots : loadPackages_allCb(s)
    \/ \E s \in Slots : loadPackages_defaultCb(s)
    \/ \E s \in Slots : readOnlyMode(s)
    \/ \E s \in Slots : packages_get(s)
    \/ \E s \in Slots : datasets_list(s)
    \/ \E s \in Slots : datasets_get(s)
    \/ \E s \in Slots : other_handler(s)
    \/ \E s \in Slots : bleedingEdgeGuard(s)
    \/ \E s \in Slots : datasets_create(s)
    \/ \E s \in Slots : datasets_create_cb(s)
    \/ \E s \in Slots : exportImage(s)
    \/ \E s \in Slots : exportImage_cb(s)
    \/ \E s \in Slots : apiDeleteImage(s)
    \/ \E s \in Slots : Finish(s)

SpecLoad == InitLoad /\ [][NextLoad]_vars

\* Two list requests in flight at a time, their steps interleaved in any
\* order: every handler step and every callback is one event of the event
\* loop.  Unfiltered requests and requests filtered by name, one declared
\* version; the clock stands still (expiry is followed under Spec), so an
\* entry is replaced only after a failed read or a failed write.
ConcSlots == {"r1", "r2"}

ConcVersions == { <<"~", "7", ".", "0">> }

ConcFilters == { <<>>, [name |-> FilterValue.name] }

InitConc ==
    /\ rq = [s \in ConcSlots |-> IdleReq]
    /\ cacheStore = [k \in CacheKeys |-> {}]
    /\ now = 0
    /\ last = {}
    /\ config = [img_mgmt |-> FALSE, whitelist |-> {}]
    /\ boot = BootIdle

NextConc ==
    \/ \E s \in ConcSlots : NewListRequestFrom(s, ListAccounts, ConcVersions, ConcFilters)
    \/ \E s \in ConcSlots : datasets_load(s)
    \/ \E s \in ConcSlots : loadPackages(s)
    \/ \E s \in ConcSlots : readOnlyMode(s)
    \/ \E s \in ConcSlots : packages_list(s)
    \/ \E s \in ConcSlots : list_cacheCb(s)
    \/ \E s \in ConcSlots : list_papiCb(s)
    \/ \E s \in ConcSlots : Finish(s)

SpecConc == InitConc /\ [][NextConc]_vars

\* ------------------------------------------- preloads and handlers: claims

\* The declared range admits 6.5.0 under semantic-version range semantics
\* (a missing header, "*", is not a declaration of the legacy track).
OnLegacyTrack(v) == v # <<"*">> /\ semver_satisfies(V650, v)

\* The request has a package parameter that is (is not) of the UUID shape.
PackageByUuid(r) == "package" \in DOMAIN r.params /\ UUID_RE(r.params.package)

PackageByName(r) == "package" \in DOMAIN r.params /\ ~UUID_RE(r.params.package)

\* The identifier of the request's image, as datasets.load reads it.
ImageId(r) == ParamOr(r.params, "image", "dataset")

ImageByUuid(r) == ImageId(r) # {} /\ \A x \in ImageId(r) : UUID_RE(x)

ImageByName(r) == ImageId(r) # {} /\ \A x \in ImageId(r) : ~UUID_RE(x)

\* The request's latest backend call was to api and has been answered by e.
Answered(r, api, e) ==
    /\ r.calls # <<>>
    /\ r.calls[Len(r.calls)].api = api
    /\ Len(r.answers) = Len(r.calls)
    /\ r.answers[Len(r.answers)] = e

\* The chain ended with an error before it reached the route handler.
RaisedByPreload(r) == r.pc = "done" /\ r.nextErr # NoErr /\ r.nexts < 3

\* The route handler ended the chain with its own NotFound.
RaisedByHandler(r) ==
    r.pc = "done" /\ r.nextErr = "ResourceNotFoundError" /\ r.nexts = 3

\* The active packages of the account that carry the name.
NamedPackages(account, name) ==
    { p \in Packages : p.name = name /\ account \in p.owner_uuids /\ p.active }

\* C1: when loadPackages resolves a package name and the backend returns
\* several active packages of the tenant with that name, req.pkg is the one of
\* the greatest semantic version, whatever the order of the backend's result.
C1_ByNameSelectsGreatestVersion ==
    \A s \in Slots :
        LET r == rq[s]
            cands == NamedPackages(r.account, r.params.package)
        IN  (/\ PackageByName(r)
             /\ Answered(r, "papi.list", NoErr)
             /\ cands # {})
            => \E p \in cands :
                /\ r.pkg = {p}
                /\ \A q \in cands :
                    TripleGte(Components(p.version), Components(q.version))

\* Two packages named small were returned and 1.10.0 was selected and sent.
C1_Witness ==
    \E s \in Slots :
        /\ rq[s].pc = "done" /\ rq[s].route = "GetPackage"
        /\ rq[s].params = [package |-> "small"]
        /\ Cardinality(NamedPackages(rq[s].account, "small")) = 2
        /\ \E p \in rq[s].pkg : p.uuid = "u-p2"
        /\ Len(rq[s].sent) = 1

\* The backend's record of the package (image) a UUID names, as a set.
PackageOf(uuid) == { p \in Packages : p.uuid = uuid }

ImageOf(uuid) == { i \in Images : i.uuid = uuid }

\* The entity occurs in what the request sent to the client.
Returned(r, uuid) ==
    \E k \in DOMAIN r.sent : "id" \in DOMAIN r.sent[k] /\ r.sent[k].id = uuid

TranslatedDatasets(r) ==
    LET all == CHOOSE l \in r.datasets : TRUE
    IN  [i \in DOMAIN all |-> datasets_translate(r, all[i])]

\* C5 as stated: the image list of a request on the legacy 6.5 track holds
\* no image whose translation has no urn and every one that has; the image
\* list of any other request holds the translation of every image of
\* req.datasets.
C5_LegacyListDropsUrnless ==
    \A s \in Slots :
        LET r == rq[s]
        IN  (/\ r.pc = "done" /\ r.route \in {"ListDatasets", "ListImages"}
             /\ Len(r.sent) = 1)
            => IF OnLegacyTrack(r.version)
               THEN r.sent[1] = FilterSeq(TranslatedDatasets(r),
                                    { d \in Elems(TranslatedDatasets(r)) :
                                        "urn" \in DOMAIN d })
               ELSE r.sent[1] = TranslatedDatasets(r)

\* C6 as stated: the translation of a package has name, memory, disk, swap,
\* vcpus and default; it has none of id, version, description and group when
\* the request is on the legacy 6.5 track, and has id and version otherwise.
C6_LegacyPackageOmitsIdVersion ==
    \A s \in Slots :
        LET r == rq[s]
        IN  (r.pc = "done" /\ r.route = "GetPackage" /\ Len(r.sent) = 1)
            => /\ r.sent[1] = packages_translate(r.version, CHOOSE p \in r.pkg : TRUE)
               /\ {"name", "memory", "disk", "swap", "vcpus", "default"}
                    \subseteq DOMAIN r.sent[1]
               /\ IF OnLegacyTrack(r.version)
                  THEN DOMAIN r.sent[1]
                        \cap {"id", "version", "description", "group"} = {}
                  ELSE {"id", "version"} \subseteq DOMAIN r.sent[1]

\* No backend call of the request failed for a reason other than not-found.
NoBackendFailure(r) ==
    \A k \in DOMAIN r.answers : r.answers[k] \notin {"PapiError", "ImgapiError"}

\* The images the account may see that the identifier names in any way.
NamedImages(account, x) ==
    { i \in Images :
        /\ ImgMatches(i, [account |-> account])
        /\ (x = i.uuid \/ x = i.name \/ ("urn" \in DOMAIN i /\ x = i.urn)) }

\* The request's package (image) identifier resolves to no entity.
NoSuchPackage(r) ==
    \/ PackageByUuid(r)
        /\ ~\E p \in PackageOf(r.params.package) : r.account \in p.owner_uuids
    \/ PackageByName(r) /\ NamedPackages(r.account, r.params.package) = {}

NoSuchImage(r) ==
    \/ ImageByUuid(r) /\ \A x \in ImageId(r) : ImageOf(x) = {}
    \/ ImageByName(r) /\ \A x \in ImageId(r) : NamedImages(r.account, x) = {}

\* datasets.load (packages.loadPackages) ended the chain with an error:
\* datasets.load makes the first call of next, loadPackages the second.
RaisedByDatasetsLoad(r) == RaisedByPreload(r) /\ r.nexts = 1

RaisedByLoadPackages(r) == RaisedByPreload(r) /\ r.nexts = 2

C10_LookupByUuidIsTenantScoped ==
    \A s \in Slots :
        LET r == rq[s]
        IN  /\ \A k \in DOMAIN r.calls :
                /\ r.calls[k].api = "papi.get"
                    => /\ "owner_uuids" \in DOMAIN r.calls[k].opts
                       /\ r.calls[k].opts.owner_uuids = r.account
                /\ r.calls[k].api = "imgapi.getImage"
                    => /\ "account" \in DOMAIN r.calls[k].opts
                       /\ r.calls[k].opts.account = r.account
            /\ \A p \in r.pkg : r.account \in p.owner_uuids
            /\ \A i \in r.dataset : i.public \/ i.owner = r.account

\* ------------------------------------------------ order within a request

\* Where a request is while datasets.load (packages.loadPackages) runs.
DatasetsPhase ==
    {"datasets.load", "imgapi.getImage", "imgapi.listImages", "imgapi.listDisabled"}

PackagesPhase ==
    {"packages.load", "papi.get", "papi.listByName", "papi.listAll",
     "papi.listDefault"}

\* The backend clients the preloads (the route handlers) call.
PreloadApis == {"imgapi.getImage", "imgapi.listImages", "papi.get", "papi.list"}

HandlerApis == {"imgapi.createImageFromVm", "imgapi.exportImage", "imgapi.deleteImage"}

\* The request's latest backend call was to one of apis and failed.
FailedIn(r, apis) ==
    /\ r.calls # <<>> /\ Len(r.answers) = Len(r.calls)
    /\ r.calls[Len(r.calls)].api \in apis
    /\ r.answers[Len(r.answers)] # NoErr

\* C11: each preload calls next exactly once on every path (datasets.load
\* makes the first call, loadPackages the second, and a preload that hands
\* an error to next makes the last), no preload sends a response, and
\* nothing is sent and no handler's backend call is made before both preloads
\* have called next.
C11_PreloadsCallNextOnceAndFirst ==
    \A s \in Slots :
        LET r == rq[s]
        IN  /\ r.pc \in DatasetsPhase
                => r.nexts = 0 /\ r.sent = <<>> /\ r.nextErr = NoErr
            /\ r.pc \in PackagesPhase
                => r.nexts = 1 /\ r.sent = <<>> /\ r.nextErr = NoErr
            /\ r.pc = "handler"
                => r.nexts = 2 /\ r.sent = <<>> /\ r.nextErr = NoErr
            /\ r.pc = "done" => r.nexts \in 1..4
            /\ FailedIn(r, {"imgapi.getImage", "imgapi.listImages"})
                => r.pc = "done" /\ r.nexts = 1
            /\ (FailedIn(r, {"papi.get", "papi.list"}) /\ r.route # "ListPackages")
                => r.pc = "done" /\ r.nexts = 2
            /\ (r.pc = "done" /\ r.nexts = 1) => r.nextErr # NoErr
            /\ r.sent # <<>> => r.nexts >= 3
            /\ (\E k \in DOMAIN r.calls : r.calls[k].api \in HandlerApis)
                => r.nexts >= 3

\* A machines listing went through both preloads, each with a backend call,
\* and reached its route.
C11_Witness ==
    \E s \in Slots :
        /\ rq[s].pc = "handler" /\ rq[s].route = "ListMachines"
        /\ rq[s].nexts = 2
        /\ Len(rq[s].calls) = 3 /\ rq[s].packages # {}

\* The request made a backend call to api (with a name among its opts).
Called(r, api) == \E k \in DOMAIN r.calls : r.calls[k].api = api

CalledByName(r) ==
    \E k \in DOMAIN r.calls :
        r.calls[k].api = "papi.list" /\ "name" \in DOMAIN r.calls[k].opts

\* C12: a selected entity is an element of the candidate list of its type
\* whenever that list was loaded, and after a targeted lookup (an image or a
\* package by UUID, a package by name) no candidate list of that type is
\* loaded.
C12_SelectionIsMemberOfCandidates ==
    \A s \in Slots :
        LET r == rq[s]
        IN  /\ \A l \in r.datasets : \A d \in r.dataset : d \in Elems(l)
            /\ \A l \in r.packages : \A p \in r.pkg : p \in Elems(l)
            /\ Called(r, "imgapi.getImage") => r.datasets = {}
            /\ (Called(r, "papi.get") \/ CalledByName(r)) => r.packages = {}

\* A resize without a package loaded the tenant's packages and selected one
\* of them.
C12_Witness ==
    \E s \in Slots :
        /\ rq[s].pc = "handler" /\ rq[s].route = "UpdateMachine"
        /\ rq[s].pkg # {} /\ rq[s].packages # {}
        /\ \A l \in rq[s].packages : Len(l) >= 2

\* The items of the image response of a request: the elements of a list, the
\* one image of a get.
ImageItems(r) ==
    IF r.route \in {"ListDatasets", "ListImages"} /\ Len(r.sent) = 1
    THEN Elems(r.sent[1])
    ELSE IF r.route \in {"GetDataset", "GetImage"} /\ Len(r.sent) = 1
    THEN {r.sent[1]}
    ELSE {}

\* C13 as stated: packages.translate, datasets.translate, the URN filter of
\* datasets.list and the choice between curImg65 and curImg70 treat a request
\* as legacy exactly when its declared range admits 6.5.0 under range
\* semantics, never by the text of the declared version.
C13_LegacyDecidedByRange ==
    \A s \in Slots :
        LET r == rq[s]
            legacy == OnLegacyTrack(r.version)
        IN  /\ (r.route = "GetPackage" /\ Len(r.sent) = 1)
                => ("id" \notin DOMAIN r.sent[1] <=> legacy)
            /\ \A d \in ImageItems(r) : "default" \in DOMAIN d <=> legacy
            /\ (r.route \in {"ListDatasets", "ListImages"} /\ Len(r.sent) = 1 /\ legacy)
                => \A d \in ImageItems(r) : "urn" \in DOMAIN d
            /\ (r.pc \in PackagesPhase /\ r.datasets # {})
                => \A l \in r.datasets :
                    r.dataset = IF legacy THEN curImg65(r.params, l, {})
                                ELSE curImg70(r.params, l, {})

\* The request is a resize that names no package.
ResizeWithoutPackage(r) ==
    /\ r.method = "POST"
    /\ "action" \in DOMAIN r.params /\ r.params.action = "resize"
    /\ "package" \notin DOMAIN r.params
    /\ ~EndsWith(r.url, "packages")

\* The active packages of the account (those of them flagged default).
OwnActivePackages(account) ==
    { p \in Packages : account \in p.owner_uuids /\ p.active }

OwnDefaultPackages(account) ==
    { p \in OwnActivePackages(account) : p.default = TRUE }

\* C14: for a resize without a package, loadPackages makes req.packages the
\* tenant's active packages and req.pkg a default-flagged one of them whose
\* version is greater than or equal to that of every other default-flagged
\* one; without a default-flagged package req.pkg stays absent and no error is
\* raised.
C14_ResizeSelectsGreatestDefault ==
    \A s \in Slots :
        LET r == rq[s]
            defaults == OwnDefaultPackages(r.account)
        IN  (ResizeWithoutPackage(r) /\ Answered(r, "papi.list", NoErr))
            => /\ r.nextErr = NoErr
               /\ \E l \in r.packages : Elems(l) = OwnActivePackages(r.account)
               /\ IF defaults = {} THEN r.pkg = {}
                  ELSE \E p \in defaults :
                        /\ r.pkg = {p}
                        /\ \A q \in defaults :
                            TripleGte(Components(p.version), Components(q.version))

\* A resize of a tenant with two default-flagged packages selected 1.10.0.
C14_Witness ==
    \E s \in Slots :
        /\ ResizeWithoutPackage(rq[s]) /\ Answered(rq[s], "papi.list", NoErr)
        /\ Cardinality(OwnDefaultPackages(rq[s].account)) = 2
        /\ \E p \in rq[s].pkg : p.uuid = "u-p2"

\* ------------------------------------------------- gated routes: claims

\* The feature flag is off, or the login is neither whitelisted nor covered
\* by '*'.
Blocked(r) ==
    \/ ~config.img_mgmt
    \/ (r.login \notin config.whitelist /\ "*" \notin config.whitelist)

\* C15 as stated: a request to a gated route of a blocked tenant ends with
\* ResourceNotFound, and no createImageFromVm, exportImage or deleteImage call
\* is made.
C15_BlockedEndsInNotFound ==
    \A s \in Slots :
        LET r == rq[s]
        IN  (r.route \in GatedRoutes /\ Blocked(r))
            => /\ r.pc = "done" => r.nextErr = "ResourceNotFoundError"
               /\ \A k \in DOMAIN r.calls : r.calls[k].api \notin HandlerApis

\* What is left of C15 for a login that is no inherited property name: a
\* request to a gated route of a blocked tenant never reaches create,
\* exportImage or apiDeleteImage and makes no createImageFromVm, exportImage
\* or deleteImage call; it sends nothing and ends with an error, which is the
\* guard's ResourceNotFound when both preloads have passed and the error of
\* the failing preload otherwise.
C15_BlockedNeverReachesHandler ==
    \A s \in Slots :
        LET r == rq[s]
        IN  (r.route \in GatedRoutes /\ Blocked(r) /\ r.login \notin InheritedKeys)
            => /\ r.pc \notin {"gated", "imgapi.createImageFromVm", "imgapi.exportImage"}
               /\ \A k \in DOMAIN r.calls : r.calls[k].api \notin HandlerApis
               /\ r.sent = <<>>
               /\ r.pc = "done"
                    => IF r.nexts >= 3
                       THEN r.nexts = 3 /\ r.nextErr = "ResourceNotFoundError"
                       ELSE /\ RaisedByPreload(r)
                            /\ \/ FailedIn(r, PreloadApis)
                               \/ \E x \in ImageId(r) : \E i \in ImageOf(x) :
                                    i.state = "destroyed"

\* With the feature on and only alice whitelisted, bob's export request
\* passed both preloads and was stopped by the guard.
C15_Witness ==
    \E s \in Slots :
        /\ config = [img_mgmt |-> TRUE, whitelist |-> {"alice"}]
        /\ rq[s].login = "bob" /\ rq[s].route = "ExportImage"
        /\ rq[s].pc = "done" /\ rq[s].nexts = 3
        /\ rq[s].nextErr = "ResourceNotFoundError"

\* C16: imgapi.deleteImage is never called; a DeleteImage request of a tenant
\* the guard lets through, once both preloads have passed, ends with the
\* NotSupported error, which is not the ResourceNotFound of absent or gated
\* resources, and sends nothing.
C16_DeleteIsNotSupported ==
    \A s \in Slots :
        LET r == rq[s]
        IN  /\ ~Called(r, "imgapi.deleteImage")
            /\ (r.route = "DeleteImage" /\ ~Blocked(r) /\ r.pc = "done" /\ r.nexts >= 3)
                => /\ r.nextErr = "NotSupported"
                   /\ r.nextErr # "ResourceNotFoundError"
                   /\ r.nexts = 4
                   /\ r.sent = <<>>

\* A whitelisted tenant asked for the deletion of its own image u-i3, which
\* the preload had selected, and got NotSupported.
C16_Witness ==
    \E s \in Slots :
        /\ rq[s].route = "DeleteImage" /\ rq[s].login = "alice"
        /\ rq[s].params = [dataset |-> "u-i3"]
        /\ \E d \in rq[s].dataset : d.uuid = "u-i3"
        /\ rq[s].pc = "done" /\ rq[s].nextErr = "NotSupported"

\* The error codes of the backend that are exposed as they are.
KnownErrorCodes == {"PrepareImageDidNotRun", "VmHasNoOrigin", "NotSupported"}

GenericErrorMessage == "an unexpected error occurred (Contact support for assistance.)"

\* C17: every image item of a response that has an error field has one of the
\* codes PrepareImageDidNotRun, VmHasNoOrigin, NotSupported, InternalError; a
\* known code of the backend's record is kept with its message, any other
\* code and a missing code give InternalError with the generic message, which
\* is neither the backend's code nor its message.
C17_ErrorFieldIsTranslated ==
    \A s \in Slots :
        \A item \in ImageItems(rq[s]) :
            "error" \in DOMAIN item
                => /\ DOMAIN item.error = {"code", "message"}
                   /\ item.error.code \in KnownErrorCodes \cup {"InternalError"}
                   /\ \A i \in ImageOf(item.id) :
                        /\ "error" \in DOMAIN i
                        /\ IF "code" \in DOMAIN i.error /\ i.error.code \in KnownErrorCodes
                           THEN item.error = i.error
                           ELSE /\ item.error.code = "InternalError"
                                /\ item.error.message = GenericErrorMessage
                                /\ item.error.message # i.error.message
                                /\ "code" \in DOMAIN i.error
                                    => item.error.code # i.error.code

\* A response exposed the error of u-i4, whose backend code EIO is not a known
\* one, as InternalError.
C17_Witness ==
    \E s \in Slots :
        \E item \in ImageItems(rq[s]) :
            /\ item.id = "u-i4" /\ "error" \in DOMAIN item
            /\ item.error.code = "InternalError"
            /\ \E i \in ImageOf("u-i4") : i.error.code = "EIO"

\* ------------------------------------------ concurrent list requests: claims

\* The tenant has a right to the package.
OwnedBy(account, p) == account \in p.owner_uuids

\* C18: every cache read and write of a package list request uses the key
\* 'packages_' + the uuid of the request's own tenant; under any interleaving
\* of the requests of two tenants the entry under a tenant's key holds packages
\* of that tenant only, and every item of a response served from the cache is
\* the translation of a package of the request's own tenant.
C18_CacheKeyIsPerTenant ==
    /\ \A s \in DOMAIN rq :
        LET r == rq[s]
        IN  /\ \A op \in OpsOf(r) : op.key = <<"packages_", r.account>>
            /\ (Len(r.sent) = 1 /\ \E op \in OpsOf(r) : op.result = "hit")
                => \A item \in Elems(r.sent[1]) :
                    \E p \in Packages :
                        /\ OwnedBy(r.account, p)
                        /\ item = packages_translate(r.version, p)
    /\ \A k \in DOMAIN cacheStore :
        \E a \in Accounts :
            /\ k = <<"packages_", a.uuid>>
            /\ \A e \in cacheStore[k] :
                \A p \in Elems(e.value) : OwnedBy(a.uuid, p)

\* A request of t1 was served from the cache while a request of t2 that had
\* written its own entry was still on its way to the end of the chain, and the
\* store held an entry of each tenant.
C18_Witness ==
    \E s, t \in DOMAIN rq :
        /\ rq[s].account = "t1" /\ rq[t].account = "t2"
        /\ Len(rq[s].sent) = 1
        /\ \E op \in OpsOf(rq[s]) : op.result = "hit"
        /\ \E op \in OpsOf(rq[t]) : op.op = "set" /\ op.result = "stored"
        /\ \A a \in ListAccounts : cacheStore[getCacheKey(a.uuid)] # {}

\* ------------------------------------------------ cache lifetime: claims

\* The request has read the cache and the read was not a hit.
ReadWithoutHit(r) ==
    /\ IsListReq(r) /\ ~Filtered(r)
    /\ r.pc \in {"papi.list", "done"}
    /\ \A op \in OpsOf(r) : op.result # "hit"

\* C19: every cache write of the list handler gives the entry the lifetime
\* max_packages_lifetime; a request served from the cache writes nothing, so
\* no entry of the store lives longer than the lifetime from now on and a
\* hit is served strictly before the entry's expiry; an unfiltered request
\* that reads the cache at or after the expiry of what the previous request
\* of the tenant wrote or was served from queries the backend.
C19_WritesUseLifetimeAndHitsDoNotWrite ==
    /\ \A s \in Slots :
        LET r == rq[s]
        IN  /\ \A op \in OpsOf(r) :
                /\ op.op = "set" => op.expires = op.at + MaxPackagesLifetime
                /\ op.result = "hit"
                    => /\ op.at < op.expires
                       /\ op.expires <= op.at + MaxPackagesLifetime
                       /\ \A w \in OpsOf(r) : w.op # "set"
                       /\ r.calls = <<>>
            /\ ReadWithoutHit(r)
                => r.calls = <<[api |-> "papi.list", opts |-> r.opts]>>
            /\ \A f \in last :
                (/\ IsListReq(r) /\ ~Filtered(r) /\ f.account = r.account
                 /\ r.cacheOps # <<>> /\ r.cacheOps[1].at >= f.expires)
                    => /\ r.cacheOps[1].result # "hit"
                       /\ Called(r, "papi.list")
    /\ \A k \in DOMAIN cacheStore :
        \A e \in cacheStore[k] : e.expires <= now + MaxPackagesLifetime

\* The entry the previous request of the tenant had stored was still in the
\* store and had expired when the next unfiltered request read the cache; the
\* request queried the backend and wrote a new entry with the lifetime.
C19_Witness ==
    \E s \in Slots : \E f \in last :
        LET r == rq[s]
        IN  /\ r.pc = "done" /\ IsListReq(r) /\ ~Filtered(r)
            /\ f.account = r.account /\ f.cacheOk
            /\ Len(r.cacheOps) = 2
            /\ r.cacheOps[1].result = "miss" /\ r.cacheOps[1].at >= f.expires
            /\ r.cacheOps[2].result = "stored"
            /\ r.cacheOps[2].expires = r.cacheOps[2].at + MaxPackagesLifetime
            /\ Called(r, "papi.list")

\* ------------------------------------------- current image selection: claims

\* The elements of req.datasets that the identifier of the request names by
\* uuid, urn or name; without an identifier, those named smartos.
LooseMatches(r) ==
    LET d == ParamOr(r.params, "dataset", "image")
        all == Elems(CHOOSE l \in r.datasets : TRUE)
    IN  IF d # {}
        THEN { i \in all : \E x \in d : \/ x = i.uuid
                                        \/ ("urn" \in DOMAIN i /\ x = i.urn)
                                        \/ x = i.name }
        ELSE { i \in all : i.name = "smartos" }

\* datasets.load has just called next after the image listing answered.
ListingLoaded(r) ==
    r.pc = "packages.load" /\ r.nexts = 1 /\ r.datasets # {}

\* req.dataset is the match of the greatest semantic version, and absent when
\* nothing matches.
SelectsGreatestMatch(r) ==
    IF LooseMatches(r) = {} THEN r.dataset = {}
    ELSE \E m \in LooseMatches(r) :
            /\ r.dataset = {m}
            /\ \A o \in LooseMatches(r) :
                TripleGte(Components(m.version), Components(o.version))

\* C20 as stated: for a request on the legacy 6.5 track, once the image
\* listing is loaded, req.dataset is the element of req.datasets of the
\* greatest semantic version among those whose uuid, urn or name equals the
\* identifier (whose name is smartos when there is no identifier), and is
\* absent when there is no such element.
C20_LegacyTrackSelectsGreatestMatch ==
    \A s \in Slots :
        (ListingLoaded(rq[s]) /\ OnLegacyTrack(rq[s].version))
            => SelectsGreatestMatch(rq[s])

\* The positions of req.datasets whose element has the identifier of the
\* request as its uuid or as its urn.
StrictHits(r) ==
    LET id == ParamOr(r.params, "image", "dataset")
        all == CHOOSE l \in r.datasets : TRUE
    IN  { i \in DOMAIN all :
            \E x \in id : \/ x = all[i].uuid
                          \/ ("urn" \in DOMAIN all[i] /\ x = all[i].urn) }

\* C21: for a request on a modern track, once the image listing is loaded,
\* req.dataset is the element of req.datasets at the first position whose
\* uuid or urn equals the identifier, whatever the versions of later
\* matches; it is absent when only names match and when there is no
\* identifier.
C21_ModernTrackSelectsFirstMatch ==
    \A s \in Slots :
        LET r == rq[s]
            all == CHOOSE l \in r.datasets : TRUE
        IN  (ListingLoaded(r) /\ ~OnLegacyTrack(r.version))
                => /\ ParamOr(r.params, "image", "dataset") = {} => r.dataset = {}
                   /\ StrictHits(r) = {} => r.dataset = {}
                   /\ \A i \in StrictHits(r) :
                        (\A j \in StrictHits(r) : i <= j) => r.dataset = {all[i]}

\* The first match was selected although a later match has a greater version.
C21_Witness ==
    \E s \in Slots :
        LET r == rq[s]
            all == CHOOSE l \in r.datasets : TRUE
        IN  /\ ListingLoaded(r) /\ ~OnLegacyTrack(r.version)
            /\ \E i, j \in StrictHits(r) :
                /\ i < j /\ r.dataset = {all[i]}
                /\ all[j].version # all[i].version
                /\ TripleGte(Components(all[j].version), Components(all[i].version))

\* ------------------------------------------------- candidate lists: claims

\* The request is a machines listing: /machines is in the URL, /machines/ is
\* not, and the method is not POST.
MachinesListing(r) ==
    /\ \E i \in DOMAIN r.url : r.url[i] = "machines"
    /\ ~\E i \in DOMAIN r.url : r.url[i] = "machines" /\ i < Len(r.url)
    /\ r.method # "POST"

\* The lookup of disabled images, which carries no account.
DisabledLookup == [api |-> "imgapi.listImages", opts |-> [state |-> "disabled"]]

\* What the backend holds for a listing with these opts.
ImagesFor(opts) == { i \in Images : ImgMatches(i, opts) }

\* C22: the lookup of disabled images without an account is issued only for
\* a machines listing; once the listing is loaded, req.datasets of a machines
\* listing is the result of the listing for the tenant followed by the disabled
\* images, and req.datasets of any other request is the result of the
\* listing for the tenant alone; the list of a POST /machines holds no
\* disabled image.
C22_DisabledLookupOnlyForMachinesListing ==
    \A s \in Slots :
        LET r == rq[s]
            all == CHOOSE l \in r.datasets : TRUE
            scoped == ImagesFor(r.calls[1].opts)
            n == Cardinality(scoped)
        IN  /\ (\E k \in DOMAIN r.calls : r.calls[k] = DisabledLookup)
                => MachinesListing(r)
            /\ ListingLoaded(r)
                => /\ r.calls[1].api = "imgapi.listImages"
                   /\ r.calls[1].opts.account = r.account
                   /\ Len(all) >= n
                   /\ Elems(SubSeq(all, 1, n)) = scoped
                   /\ IF MachinesListing(r)
                      THEN /\ r.calls = <<r.calls[1], DisabledLookup>>
                           /\ Elems(SubSeq(all, n + 1, Len(all)))
                                = ImagesFor(DisabledLookup.opts)
                           /\ Len(all) = n + Cardinality(ImagesFor(DisabledLookup.opts))
                      ELSE /\ Len(r.calls) = 1
                           /\ Len(all) = n
                   /\ (r.method = "POST" /\ r.url = <<"my", "machines">>)
                        => \A i \in Elems(all) : i.state # "disabled"

\* A machines listing got the tenant's images followed by the disabled image
\* u-i5, an image of another tenant is among them.
C22_Witness ==
    \E s \in Slots :
        LET r == rq[s]
            all == CHOOSE l \in r.datasets : TRUE
        IN  /\ ListingLoaded(r) /\ MachinesListing(r) /\ r.account = "t2"
            /\ Len(all) = 4 /\ all[4].uuid = "u-i5" /\ all[4].owner = "t1"

OptKeyOf ==
    [name |-> "name", memory |-> "max_physical_memory", disk |-> "quota",
     swap |-> "max_swap", version |-> "version", vcpus |-> "vcpus",
     group |-> "group"]

\* C24: every backend query of the package list handler carries active = true
\* and the uuid of the request's tenant as owner, and besides them the
\* recognized filter parameters of the request and nothing else; the request
\* may use the cache exactly when it has no recognized filter parameter, so a
\* parameter that is not recognized changes neither.
C24_QueryHoldsRecognizedFiltersOnly ==
    \A s \in Slots :
        LET r == rq[s]
            recognized == DOMAIN r.params \cap ListFilterParams
        IN  IsListReq(r)
            => /\ \A c \in Elems(r.calls) :
                    /\ c.api = "papi.list"
                    /\ DOMAIN c.opts = {"active", "owner_uuids"}
                                        \cup { OptKeyOf[k] : k \in recognized }
                    /\ c.opts.active = TRUE
                    /\ c.opts.owner_uuids = r.account
                    /\ \A k \in recognized : c.opts[OptKeyOf[k]] = r.params[k]
               /\ r.pc \in {"cache.get", "papi.list", "done"}
                    => r.canUseCache = (recognized = {})

\* A request whose only parameter is one that list does not recognize was
\* served from the cache.
C24_Witness ==
    \E s \in Slots :
        LET r == rq[s]
        IN  /\ IsListReq(r) /\ r.pc = "done"
            /\ r.params = [limit |-> "10"]
            /\ r.calls = <<>> /\ Len(r.sent) = 1
            /\ \E op \in OpsOf(r) : op.result = "hit"

\* ------------------------------------------------- image fields: claims

ExtendedFields == {"owner", "public", "state", "eula", "acl", "origin", "error"}

\* The tenant's login is a key of the whitelist, or '*' is.
Whitelisted(r) ==
    r.login \in config.whitelist \/ "*" \in config.whitelist

\* The request is entitled to the extended fields: its declared version
\* admits 7.1.0, or the feature is on and the tenant is whitelisted.
EntitledToExtended(r) ==
    semver_satisfies(V710, r.version) \/ (config.img_mgmt /\ Whitelisted(r))

\* C25 as stated: an image item sent on an /images endpoint has the extended
\* fields of the backend's record when the request is entitled to them and
\* none of them otherwise.
C25_ExtendedFieldsOnlyWhenEntitled ==
    \A s \in Slots :
        LET r == rq[s]
        IN  r.route \in {"ListImages", "GetImage"}
            => \A item \in ImageItems(r) : \A i \in ImageOf(item.id) :
                DOMAIN item \cap ExtendedFields
                    = IF EntitledToExtended(r) THEN DOMAIN i \cap ExtendedFields
                      ELSE {}

\* C26: an image item carries urn only on the deprecated /datasets
\* endpoints, where it carries the urn of every image that has one; an item
\* of a /datasets endpoint never carries homepage, published_at or an
\* extended field, whatever the declared version, the feature flag and the
\* whitelist are.
C26_UrnOnlyOnDeprecatedEndpoints ==
    \A s \in Slots :
        LET r == rq[s]
        IN  \A item \in ImageItems(r) : \A i \in ImageOf(item.id) :
                IF r.route \in {"ListDatasets", "GetDataset"}
                THEN /\ "urn" \in DOMAIN item <=> "urn" \in DOMAIN i
                     /\ "urn" \in DOMAIN item => item.urn = i.urn
                     /\ DOMAIN item \cap ({"homepage", "published_at"} \cup ExtendedFields) = {}
                ELSE "urn" \notin DOMAIN item

\* With the feature on for everyone and every version admitted, a /datasets
\* response held u-i1 with its urn and without its homepage, its
\* published_at and its owner.
C26_Witness ==
    \E s \in Slots :
        /\ config = [img_mgmt |-> TRUE, whitelist |-> {"*"}]
        /\ rq[s].version = <<"*">>
        /\ rq[s].route \in {"ListDatasets", "GetDataset"}
        /\ \E item \in ImageItems(rq[s]) :
            /\ item.id = "u-i1" /\ item.urn = "sdc:sdc:smartos:1.2.0"
            /\ DOMAIN item \cap {"homepage", "published_at", "owner"} = {}

\* C27: an image item of a request whose declared version is '*' has neither
\* default nor created; every image item of a request whose declared version
\* is not '*' and admits 6.5.0 has default, which is true exactly when the
\* image's uuid is that of req.dataset, so the items marked default in one
\* response all carry one uuid.
C27_DefaultMarksSelectedImage ==
    \A s \in Slots :
        LET r == rq[s]
        IN  \A item \in ImageItems(r) :
                /\ r.version = <<"*">>
                    => DOMAIN item \cap {"default", "created"} = {}
                /\ (r.version # <<"*">> /\ semver_satisfies(V650, r.version))
                    => /\ "default" \in DOMAIN item
                       /\ item.default <=> \E d \in r.dataset : d.uuid = item.id
                       /\ \A other \in ImageItems(r) :
                            (item.default /\ other.default) => other.id = item.id

\* A legacy list response marked the selected image smartos 1.10.0 as
\* default and the other images as not default.
C27_Witness ==
    \E s \in Slots :
        LET r == rq[s]
        IN  /\ r.route = "ListDatasets" /\ r.version = <<"~", "6", ".", "5">>
            /\ \E item \in ImageItems(r) : item.id = "u-i2" /\ item.default
            /\ \E item \in ImageItems(r) : item.id = "u-i1" /\ ~item.default

\* --------------------------------------------------- skipped preloads: claims

\* C28: a request whose URL is /--ping passes both preloads without a backend
\* call and without an error, and a request whose path ends in /packages
\* passes the package preload so, a package parameter in the request or not;
\* on the /packages path req.pkg stays absent.
C28_PingAndPackagesSkipPreload ==
    \A s \in Slots :
        LET r == rq[s]
        IN  /\ IsPing(r.url)
                => /\ r.calls = <<>> /\ r.nextErr = NoErr
                   /\ r.pc \in {"handler", "done"} => r.nexts = 2
            /\ (r.url # <<>> /\ r.url[Len(r.url)] = "packages")
                => /\ r.pkg = {}
                   /\ (r.nexts < 2 \/ r.pc = "handler")
                        => r.calls = <<>> /\ r.nextErr = NoErr
                   /\ r.pc = "handler" => r.nexts = 2

\* A package list request that carries a package parameter reached its
\* handler without a backend call and without a selected package.
C28_Witness ==
    \E s \in Slots :
        /\ rq[s].url = <<"my", "packages">> /\ rq[s].pc = "handler"
        /\ "package" \in DOMAIN rq[s].params
        /\ rq[s].calls = <<>> /\ rq[s].pkg = {} /\ rq[s].nexts = 2

\* C29: a POST to /:account/machines/:id whose action is not resize and that
\* has no package and no image parameter passes both preloads without a
\* backend call and without an error; req.pkg and req.dataset stay absent
\* and neither req.packages nor req.datasets is loaded.
C29_OtherMachineActionLoadsNothing ==
    \A s \in Slots :
        LET r == rq[s]
        IN  (/\ r.method = "POST"
             /\ Len(r.url) = 3 /\ r.url[2] = "machines"
             /\ DOMAIN r.params \cap {"package", "image", "dataset"} = {}
             /\ ~("action" \in DOMAIN r.params /\ r.params.action = "resize"))
                => /\ r.calls = <<>> /\ r.nextErr = NoErr
                   /\ r.pkg = {} /\ r.dataset = {}
                   /\ r.packages = {} /\ r.datasets = {}
                   /\ r.pc \in {"handler", "done"} => r.nexts = 2

\* A reboot reached its handler with nothing loaded.
C29_Witness ==
    \E s \in Slots :
        /\ rq[s].route = "UpdateMachine" /\ rq[s].pc = "handler"
        /\ rq[s].params = [machine |-> "m1", action |-> "reboot"]
        /\ rq[s].calls = <<>> /\ rq[s].nexts = 2

\* -------------------------------------------------- failing preloads: claims

\* C30: when a backend call of a preload answers with an error, that call is
\* the request's last backend call, the chain ends with that error handed to
\* next and nothing is sent; after a failed image listing there is no lookup
\* of disabled images and req.datasets and req.dataset stay as they were,
\* after a failed lookup of disabled images no image is selected, and after
\* a failed package call no package is selected.
C30_PreloadFailureIsFinal ==
    \A s \in Slots :
        LET r == rq[s]
        IN  \A k \in DOMAIN r.answers :
                (r.answers[k] # NoErr /\ r.calls[k].api \in PreloadApis)
                    => /\ k = Len(r.calls) /\ k = Len(r.answers)
                       /\ r.pc = "done" /\ r.nextErr = r.answers[k]
                       /\ r.sent = <<>>
                       /\ r.calls[k].api \in {"imgapi.listImages", "imgapi.getImage"}
                            => r.nexts = 1 /\ r.dataset = {} /\ r.pkg = {}
                       /\ (r.calls[k].api = "imgapi.listImages" /\ r.calls[k] # DisabledLookup)
                            => /\ r.datasets = {}
                               /\ \A j \in DOMAIN r.calls : r.calls[j] # DisabledLookup
                       /\ r.calls[k].api \in {"papi.list", "papi.get"}
                            => r.nexts = 2 /\ r.pkg = {} /\ r.packages = {}

\* The image listing of a machines listing failed: the request ended with
\* the backend's error after that one call.
C30_Witness ==
    \E s \in Slots :
        /\ rq[s].route = "ListMachines" /\ rq[s].pc = "done"
        /\ Len(rq[s].calls) = 1 /\ rq[s].calls[1].api = "imgapi.listImages"
        /\ rq[s].answers = <<"ImgapiError">> /\ rq[s].nextErr = "ImgapiError"
        /\ rq[s].datasets = {}

\* The routes whose handlers are list and get of packages.js and list, get,
\* create, exportImage and apiDeleteImage of datasets.js.
RouteHandlerRoutes ==
    {"ListPackages", "GetPackage", "ListDatasets", "ListImages",
     "GetDataset", "GetImage"} \cup GatedRoutes

\* The request's route handler has run to its end: next was called a third
\* time for an open route, a fourth time for a route behind the guard.
HandlerEnded(r) ==
    /\ r.pc = "done"
    /\ r.route \in RouteHandlerRoutes
    /\ r.nexts = (IF r.route \in GatedRoutes THEN 4 ELSE 3)

\* C31: a request never has more than one body and never has both a body
\* and an error; a route handler of packages.js or datasets.js that has
\* ended has either sent exactly one body and called next without an error,
\* or handed an error to next and sent nothing.
C31_OneSendOrOneError ==
    \A s \in DOMAIN rq :
        LET r == rq[s]
        IN  /\ Len(r.sent) <= 1
            /\ r.sent # <<>> => r.nextErr = NoErr /\ r.pc = "done"
            /\ HandlerEnded(r)
                => \/ Len(r.sent) = 1 /\ r.nextErr = NoErr
                   \/ r.sent = <<>> /\ r.nextErr # NoErr

\* exportImage has ended with the error of the image backend and no body.
C31_Witness ==
    \E s \in DOMAIN rq :
        /\ HandlerEnded(rq[s]) /\ rq[s].route = "ExportImage"
        /\ rq[s].nextErr = "ImgapiError" /\ rq[s].sent = <<>>
        /\ rq[s].calls[Len(rq[s].calls)].api = "imgapi.exportImage"

\* resp holds, position by position, the translation of the raw packages
\* of raw for the declared version.
TranslatedInOrder(resp, raw, version) ==
    /\ Len(resp) = Len(raw)
    /\ \A i \in DOMAIN raw :
        /\ resp[i] = packages_translate(version, raw[i])
        /\ resp[i].memory = raw[i].max_physical_memory

\* The request's last cache operation read or wrote the entry of its key.
LastOpLeftEntry(r) ==
    /\ r.cacheOps # <<>>
    /\ r.cacheOps[Len(r.cacheOps)].result \in {"hit", "stored"}

\* body keeps the order of the images of all: two items of body are the
\* translations of two images that stand in the same order in all.
KeepsOrderOf(r, body, all) ==
    /\ \A i \in DOMAIN body :
        \E a \in DOMAIN all : body[i] = datasets_translate(r, all[a])
    /\ \A i, j \in DOMAIN body :
        i < j => \E a, b \in DOMAIN all :
                    /\ a < b
                    /\ body[i] = datasets_translate(r, all[a])
                    /\ body[j] = datasets_translate(r, all[b])
    /\ ~Test65(r.version) => Len(body) = Len(all)

\* C32: the body of a package list holds one translated element for each
\* raw package of a backend answer to the request's query, in that answer's
\* order, and when the list came from the cache or was just stored there it
\* is, position by position, the translation of the stored list; the body
\* of an image list holds the translations of the images of req.datasets in
\* the order of req.datasets.
C32_ListsKeepBackendOrder ==
    \A s \in DOMAIN rq :
        LET r == rq[s]
        IN  /\ (IsListReq(r) /\ r.pc = "done" /\ Len(r.sent) = 1)
                => /\ \E l \in Orderings({ p \in Packages : PapiMatches(p, r.opts) }) :
                        TranslatedInOrder(r.sent[1], l, r.version)
                   /\ LastOpLeftEntry(r)
                        => \E e \in cacheStore[getCacheKey(r.account)] :
                                TranslatedInOrder(r.sent[1], e.value, r.version)
            /\ (r.route \in {"ListDatasets", "ListImages"} /\ r.pc = "done"
                    /\ Len(r.sent) = 1)
                => \E all \in r.datasets : KeepsOrderOf(r, r.sent[1], all)

\* A list served from the cache names the package with the later version
\* before the one with the earlier version, as the stored list does.
C32_Witness ==
    \E s \in DOMAIN rq :
        /\ IsListReq(rq[s]) /\ rq[s].pc = "done" /\ Len(rq[s].sent) = 1
        /\ rq[s].cacheOps # <<>>
        /\ rq[s].cacheOps[Len(rq[s].cacheOps)].result = "hit"
        /\ Len(rq[s].sent[1]) = 2
        /\ rq[s].sent[1][1].memory = "2048" /\ rq[s].sent[1][2].memory = "1024"

\* C33 as stated: whatever the image backend holds or answers, a request to
\* a gated route of a blocked tenant that has ended has ended with
\* ResourceNotFound and without a body.
C33_BlockedOutcomeIgnoresBackend ==
    \A s \in DOMAIN rq :
        LET r == rq[s]
        IN  (r.route \in GatedRoutes /\ Blocked(r) /\ r.pc = "done")
            => r.nextErr = "ResourceNotFoundError" /\ r.sent = <<>>

\* The raw answers the backend can give to an unfiltered query for the
\* active packages of tenant a: all of them, in any order.
UnfilteredAnswers(a) ==
    Orderings({ p \in Packages :
                    PapiMatches(p, [active |-> TRUE, owner_uuids |-> a]) })

\* C34: under any interleaving of two list requests, filtered or not, every
\* entry of the cache store stands under the key of a tenant and its value
\* is a whole answer of the backend to the unfiltered query for that
\* tenant's active packages: raw packages, all of them, each once.
C34_CacheHoldsUnfilteredRawResult ==
    \A k \in DOMAIN cacheStore :
        \A e \in cacheStore[k] :
            \E a \in Accounts :
                /\ k = getCacheKey(a.uuid)
                /\ e.value \in UnfilteredAnswers(a.uuid)
                /\ \A i \in DOMAIN e.value : e.value[i] \in Packages

\* A filtered request of t2 got an empty list from the backend while the
\* entry of t2, written by an unfiltered request still in flight or just
\* ended, holds t2's package.
C34_Witness ==
    \E s, t \in DOMAIN rq :
        /\ s # t
        /\ rq[s].account = "t2" /\ rq[t].account = "t2"
        /\ Filtered(rq[s]) /\ rq[s].sent = << <<>> >>
        /\ \E op \in OpsOf(rq[t]) : op.op = "set" /\ op.result = "stored"
        /\ \E e \in cacheStore[getCacheKey("t2")] : Len(e.value) = 1

\* The request has ended with a body that the cache served.
ServedFromCache(r) ==
    /\ IsListReq(r) /\ r.pc = "done" /\ Len(r.sent) = 1
    /\ r.cacheOps # <<>>
    /\ r.cacheOps[Len(r.cacheOps)].result = "hit"

\* C35: the body of a list request served from the cache is the body the
\* request would have got from a backend answer holding the same raw
\* packages as the entry: the entry is a possible answer to the request's
\* query and the body is its translation for the request's own declared
\* version, with id and version in every item of a modern request and in
\* none of a 6.5 request, whichever version the request before it declared.
C35_HitEqualsFreshQuery ==
    \A s \in DOMAIN rq :
        LET r == rq[s]
        IN  ServedFromCache(r)
            => /\ \E e \in cacheStore[getCacheKey(r.account)] :
                  \E o \in PapiListOutcomes(r.opts) :
                    /\ o.err = NoErr /\ o.pkgs = e.value
                    /\ TranslatedInOrder(r.sent[1], o.pkgs, r.version)
               /\ \A item \in Elems(r.sent[1]) :
                    {"id", "version"} \cap DOMAIN item
                        = (IF Test65(r.version) THEN {} ELSE {"id", "version"})

\* A modern request is served from the entry that the 6.5 request before it
\* wrote or read: the earlier body has no id, the later one has.
C35_Witness ==
    \E s \in DOMAIN rq :
        /\ ServedFromCache(rq[s]) /\ ~Test65(rq[s].version)
        /\ rq[s].sent[1] # <<>>
        /\ \A item \in Elems(rq[s].sent[1]) : "id" \in DOMAIN item
        /\ \E p \in last :
            /\ p.account = rq[s].account /\ Test65(p.version) /\ p.cacheOk
            /\ p.expires = rq[s].cacheOps[Len(rq[s].cacheOps)].expires
            /\ p.body # <<>>
            /\ \A item \in Elems(p.body) : "id" \notin DOMAIN item

\* Every client the start of the server has created.
BootClients ==
    { boot.redis[i] : i \in DOMAIN boot.redis }
    \cup { boot.ufds[i] : i \in DOMAIN boot.ufds }
    \cup { boot.ufds_master[i] : i \in DOMAIN boot.ufds_master }

\* C36 as stated: whatever events its client has emitted and in whatever
\* order, each call of createRedisClient and createUfdsClient has called
\* its callback once as soon as one event was emitted and never twice;
\* createClients has called its callback at most once and createServer has
\* built at most one server.
C36_CallbacksExactlyOnce ==
    /\ \A c \in BootClients :
        /\ c.calls <= 1
        /\ c.events >= 1 => c.calls = 1
    /\ Len(boot.redis) <= 1 /\ Len(boot.ufds) <= 1 /\ Len(boot.ufds_master) <= 1
    /\ Len(boot.callbacks) <= 1
    /\ boot.servers <= 1

\* The methods readOnlyMode turns away.
MutatingMethods == {"PUT", "POST", "DELETE"}

\* The calls that change something in the image backend.
MutatingApis == {"imgapi.createImageFromVm", "imgapi.exportImage", "imgapi.deleteImage"}

\* C37 as stated: with config.read_only true, a PUT, POST or DELETE request
\* that has ended has ended with ServiceUnavailable.
C37_MutatingEndsInServiceUnavailable ==
    \A s \in DOMAIN rq :
        LET r == rq[s]
        IN  (ReadOnly /\ r.method \in MutatingMethods /\ r.pc = "done")
            => r.nextErr = "ServiceUnavailableError"

\* C37: with config.read_only true, a PUT, POST or DELETE request never
\* gets to a handler of its route, the guard included, makes no
\* createImageFromVm, exportImage or deleteImage call and sends nothing; it
\* ends with ServiceUnavailable when both preloads have passed and with the
\* error of the failing preload otherwise.  GET and HEAD requests, and every
\* request when read_only is not true, pass readOnlyMode unchanged: none of
\* them ends with ServiceUnavailable.
C37_ReadOnlyStopsMutatingAfterPreloads ==
    \A s \in DOMAIN rq :
        LET r == rq[s]
        IN  /\ (ReadOnly /\ r.method \in MutatingMethods)
                => /\ r.pc \notin {"route", "gated", "imgapi.createImageFromVm",
                                   "imgapi.exportImage"}
                   /\ r.nexts <= 2
                   /\ r.sent = <<>>
                   /\ \A k \in DOMAIN r.calls : r.calls[k].api \notin MutatingApis
                   /\ r.pc = "done"
                        => \/ r.nextErr = "ServiceUnavailableError" /\ r.nexts = 2
                           \/ RaisedByPreload(r)
            /\ (~ReadOnly \/ r.method \notin MutatingMethods)
                => r.nextErr # "ServiceUnavailableError"

\* In read-only mode a POST to create an image has passed both preloads and
\* ended with ServiceUnavailable, after the image listing of datasets.load
\* and nothing else.
C37_Witness ==
    \E s \in DOMAIN rq :
        /\ ReadOnly
        /\ rq[s].route = "CreateImageFromMachine" /\ rq[s].method = "POST"
        /\ {"machine", "name", "version"} \subseteq DOMAIN rq[s].params
        /\ rq[s].pc = "done" /\ rq[s].nexts = 2
        /\ rq[s].nextErr = "ServiceUnavailableError"
        /\ Len(rq[s].calls) = 1 /\ rq[s].calls[1].api = "imgapi.listImages"

====
